---------------------------- MODULE Spec2Model ----------------------------
(***************************************************************************)
(* Event flattening and call-lifecycle reconstruction of the Datadog RUM   *)
(* analysis tools: rum/transform.py (Streamlit front end) and              *)
(* OAM-WAS/main.py (FastAPI back end).                                     *)
(*                                                                         *)
(* Python values are pairs <<tag, payload>>:                               *)
(*   <<"none", 0>>      None                                               *)
(*   <<"str", s>>       a str with text s                                  *)
(*   <<"iso", us>>      a str holding a valid ISO-8601 instant, us          *)
(*                      microseconds after the model's epoch (UTC)         *)
(*   <<"kst", ms>>      a str "YYYY-MM-DD HH:MM:SS.mmm KST", ms            *)
(*                      milliseconds after the epoch on the KST wall clock *)
(*   <<"int", n>>       an int                                             *)
(*   <<"list", items>>  a list, items a sequence of values                 *)
(*   <<"dict", items>>  a dict, items a sequence of <<key, value>> in      *)
(*                      insertion order                                    *)
(* A flat row (Dict[str, Any] built by flatten) is a function from its     *)
(* keys to values.                                                         *)
(***************************************************************************)
EXTENDS Integers, Sequences, FiniteSets, TLC

VARIABLES
    module,          \* which source file runs: "transform" or "main"
    fn,              \* the function the request ends in (the step that
                     \* follows build_rows_dynamic)
    pc,              \* position of the request
    all_events,      \* the raw event batch
    idx,             \* build_rows_dynamic: 1-based index of the next event
    processed_rows,  \* build_rows_dynamic: rows built so far / flat_rows
    exc,             \* the exception that ended the request, or "" if none
    calls,           \* defaultdict(list): sequence of <<call id, rows>>
    call_idx,        \* index in calls of the call being summarised
    ev_idx,          \* index in the call's rows of the next row to scan
    frame,           \* local variables of the per-call loop body
    summaries,       \* summaries / results appended so far
    endpoint,        \* rum_rtp_analysis: the Datadog store, the request and
                     \* the locals of the endpoint and of _rum_search
    fetch,           \* the paginated fetch: its locals, the requests sent and
                     \* the responses received
    session,         \* app.py: st.session_state
    slots            \* sanitize_pin_slots: its arguments and its result

vars == <<module, fn, pc, all_events, idx, processed_rows, exc,
          calls, call_idx, ev_idx, frame, summaries, endpoint, fetch, session,
          slots>>

-----------------------------------------------------------------------------
(* Bounds of the model *)

MaxEvents == 3

-----------------------------------------------------------------------------
(* Python values *)

None == <<"none", 0>>
Absent == <<"absent", 0>>
Str(s) == <<"str", s>>
Num(n) == <<"int", n>>
Iso(us) == <<"iso", us>>
Kst(ms) == <<"kst", ms>>
List(items) == <<"list", items>>
Dict(items) == <<"dict", items>>
Raise(kind) == <<"raise", kind>>

IsRaise(v) == v[1] = "raise"
IsStr(v) == v[1] \in {"str", "iso", "kst"}
IsDict(v) == v[1] = "dict"
IsList(v) == v[1] = "list"

\* bool(v)
Truthy(v) ==
    CASE v[1] = "none" -> FALSE
      [] v[1] = "str" -> v[2] # ""
      [] v[1] = "int" -> v[2] # 0
      [] v[1] \in {"list", "dict"} -> v[2] # <<>>
      [] OTHER -> TRUE

\* a or b
PyOr(a, b) == IF Truthy(a) THEN a ELSE b

\* str(v) for the scalars the model uses
PyStr(v) ==
    CASE v[1] = "none" -> "None"
      [] v[1] = "str" -> v[2]
      [] v[1] = "int" -> ToString(v[2])
      [] OTHER -> "?"

-----------------------------------------------------------------------------
(* dict operations on raw (nested) dicts and on flat rows *)

RECURSIVE RawLookup(_, _)
RawLookup(items, k) ==
    IF items = <<>> THEN Absent
    ELSE IF Head(items)[1] = k THEN Head(items)[2]
    ELSE RawLookup(Tail(items), k)

\* d.get(k, default) on a raw dict
RawGetD(d, k, default) ==
    LET v == RawLookup(d[2], k) IN IF v = Absent THEN default ELSE v

\* d.get(k) on a raw dict
RawGet(d, k) == RawGetD(d, k, None)

EmptyRow == <<>>

\* row.get(k, default)
GetD(row, k, default) == IF k \in DOMAIN row THEN row[k] ELSE default

\* row.get(k)
Get(row, k) == GetD(row, k, None)

\* row[k] = v
Put(row, k, v) == [x \in (DOMAIN row) \cup {k} |-> IF x = k THEN v ELSE row[x]]

\* row.pop(k, None)
Pop(row, k) == [x \in (DOMAIN row) \ {k} |-> row[x]]

-----------------------------------------------------------------------------
(* str operations *)

\* c.lower() for one character
LowerChar(c) ==
    CASE c = "A" -> "a" [] c = "B" -> "b" [] c = "C" -> "c" [] c = "D" -> "d"
      [] c = "E" -> "e" [] c = "F" -> "f" [] c = "G" -> "g" [] c = "H" -> "h"
      [] c = "I" -> "i" [] c = "J" -> "j" [] c = "K" -> "k" [] c = "L" -> "l"
      [] c = "M" -> "m" [] c = "N" -> "n" [] c = "O" -> "o" [] c = "P" -> "p"
      [] c = "Q" -> "q" [] c = "R" -> "r" [] c = "S" -> "s" [] c = "T" -> "t"
      [] c = "U" -> "u" [] c = "V" -> "v" [] c = "W" -> "w" [] c = "X" -> "x"
      [] c = "Y" -> "y" [] c = "Z" -> "z" [] OTHER -> c

\* s.lower()
RECURSIVE Lower(_)
Lower(s) ==
    IF s = "" THEN ""
    ELSE LowerChar(SubSeq(s, 1, 1)) \o Lower(SubSeq(s, 2, Len(s)))

\* kw in s
Contains(s, kw) ==
    \E i \in 1..(Len(s) - Len(kw) + 1) : SubSeq(s, i, i + Len(kw) - 1) = kw

\* sep.join(parts) for a sequence of str texts
RECURSIVE Join(_, _)
Join(sep, parts) ==
    IF parts = <<>> THEN ""
    ELSE IF Len(parts) = 1 THEN parts[1]
    ELSE parts[1] \o sep \o Join(sep, Tail(parts))

-----------------------------------------------------------------------------
(* iso_to_kst_ms *)

KstOffsetHours == 9
KstOffsetMs == KstOffsetHours * 3600 * 1000

\* The display string of an instant: the KST wall clock, microseconds floored
\* to milliseconds.
KstOfIso(us) == Kst((us \div 1000) + KstOffsetMs)

\* iso_to_kst_ms(iso_str): the display string, or the exception it raises.
iso_to_kst_ms(iso_str) ==
    IF ~Truthy(iso_str) THEN Str("")
    ELSE IF ~IsStr(iso_str) THEN Raise("AttributeError")  \* iso_str.replace
    ELSE IF iso_str[1] = "iso" THEN KstOfIso(iso_str[2])
    ELSE Raise("ValueError")                              \* fromisoformat

-----------------------------------------------------------------------------
(* flatten *)

RECURSIVE StrAll(_)
StrAll(items) ==
    IF items = <<>> THEN <<>> ELSE <<PyStr(Head(items))>> \o StrAll(Tail(items))

\* Mutant: the key of a child is the mapping key alone, without the prefix.
ChildKey_keyOnly(prefix, k) == k

\* f"{prefix}.{k}" if prefix else k
ChildKey(prefix, k) == IF prefix # "" THEN prefix \o "." \o k ELSE k

RECURSIVE flatten(_, _, _)
RECURSIVE FlattenItems(_, _, _)
FlattenItems(prefix, items, out) ==
    IF items = <<>> THEN out
    ELSE FlattenItems(prefix, Tail(items),
                      flatten(ChildKey(prefix, Head(items)[1]), Head(items)[2], out))

\* flatten(prefix, obj, out): the value of out afterwards
flatten(prefix, obj, out) ==
    IF IsDict(obj) THEN FlattenItems(prefix, obj[2], out)
    ELSE IF IsList(obj) THEN Put(out, prefix, Str(Join(", ", StrAll(obj[2]))))
    ELSE Put(out, prefix, obj)

\* streamlit_app.py: at most ListCap elements of a list are joined.
ListCap == 10

\* The ellipsis marker " \u2026" appended to a truncated list.
Ellipsis == " ..."

\* obj[:n]
Take(items, n) == SubSeq(items, 1, IF Len(items) < n THEN Len(items) ELSE n)

\* streamlit_app.py: the str stored for a list node
JoinCapped(items) ==
    Str(Join(", ", StrAll(Take(items, ListCap)))
        \o (IF Len(items) > ListCap THEN Ellipsis ELSE ""))

RECURSIVE flatten_streamlit(_, _, _)
RECURSIVE FlattenItems_streamlit(_, _, _)
FlattenItems_streamlit(prefix, items, out) ==
    IF items = <<>> THEN out
    ELSE FlattenItems_streamlit(prefix, Tail(items),
            flatten_streamlit(ChildKey(prefix, Head(items)[1]), Head(items)[2], out))

\* streamlit_app.py: flatten(prefix, obj, out), the value of out afterwards
flatten_streamlit(prefix, obj, out) ==
    IF IsDict(obj) THEN FlattenItems_streamlit(prefix, obj[2], out)
    ELSE IF IsList(obj) THEN Put(out, prefix, JoinCapped(obj[2]))
    ELSE Put(out, prefix, obj)

\* flatten("", obj, out) on an empty out, in the source file m
FlattenOf(m, obj) ==
    IF m = "streamlit" THEN flatten_streamlit("", obj, EmptyRow)
    ELSE flatten("", obj, EmptyRow)

\* A call of flatten on the tree held in all_events; the result is left in
\* processed_rows.
FlattenCall ==
    /\ pc = "flatten"
    /\ processed_rows' = <<FlattenOf(module, all_events[1])>>
    /\ pc' = "done"
    /\ UNCHANGED <<fetch, session, slots, endpoint, module, fn, all_events, idx, exc, calls, call_idx, ev_idx,
                   frame, summaries>>

-----------------------------------------------------------------------------
(* build_rows_dynamic *)

K_callID == "attributes.context.callID"
K_callId == "attributes.context.callId"
K_CallIDs == "attributes.context.CallIDs"
K_CallID == "Call ID"
K_ts == "timestamp(KST)"

\* The candidate keys, in the order of the `or` chain.
CandidateKeys(m) ==
    IF m = "transform" THEN <<K_callID, K_callId, K_CallIDs>>
    ELSE <<K_callID, K_callId>>

\* call_id_val = flat_row.get(k1) or flat_row.get(k2) [or flat_row.get(k3)]
RECURSIVE OrChain(_, _)
OrChain(flat_row, keys) ==
    IF Len(keys) = 1 THEN Get(flat_row, keys[1])
    ELSE PyOr(Get(flat_row, keys[1]), OrChain(flat_row, Tail(keys)))

\* Mutant: the first two candidates are tried in the opposite order.
call_id_val_swapped(m, flat_row) ==
    LET keys == CandidateKeys(m) IN
    OrChain(flat_row, <<keys[2], keys[1]>> \o SubSeq(keys, 3, Len(keys)))

call_id_val(m, flat_row) == OrChain(flat_row, CandidateKeys(m))

RECURSIVE PopAll(_, _)
PopAll(flat_row, keys) ==
    IF keys = <<>> THEN flat_row ELSE PopAll(Pop(flat_row, Head(keys)), Tail(keys))

\* Mutant: "Call ID" is written but the candidate keys stay in the row.
UnifyCallId_keepKeys(m, flat_row) ==
    LET v == call_id_val(m, flat_row) IN
    IF v # None THEN Put(flat_row, K_CallID, v) ELSE flat_row

\* if call_id_val is not None: write "Call ID", pop the candidate keys
UnifyCallId(m, flat_row) ==
    LET v == call_id_val(m, flat_row) IN
    IF v # None THEN PopAll(Put(flat_row, K_CallID, v), CandidateKeys(m))
    ELSE flat_row

\* The loop body of build_rows_dynamic up to the timestamp: <<"ok", flat_row>>
\* before the Call-ID unification, or <<"raise", kind>> when iso_to_kst_ms
\* raises.
FlatRowOf(m, event) ==
    IF ~IsDict(event) THEN Raise("AttributeError")    \* event.get
    ELSE
    LET attrs == PyOr(RawGetD(event, "attributes", Dict(<<>>)), Dict(<<>>))
        flat0 == flatten("", attrs, EmptyRow)
        usr_info == PyOr(RawGet(event, "usr"), RawGet(attrs, "usr"))
        flat1 == IF m = "main" /\ Truthy(usr_info)
                 THEN flatten("usr", usr_info, flat0) ELSE flat0
        tags == PyOr(RawGet(event, "tags"), RawGet(attrs, "tags"))
        flat2 == IF m = "main" /\ Truthy(tags)
                 THEN Put(flat1, "tags", tags) ELSE flat1
        ts == iso_to_kst_ms(RawGet(attrs, "timestamp"))
    IN  IF IsRaise(ts) THEN ts ELSE <<"ok", Put(flat2, K_ts, ts)>>

\* One iteration of the loop of build_rows_dynamic.
BuildRow(m, event) ==
    LET r == FlatRowOf(m, event) IN
    IF IsRaise(r) THEN r ELSE <<"ok", UnifyCallId(m, r[2])>>

\* for event in all_events: ... processed_rows.append(flat_row)
BuildRowsStep ==
    /\ pc = "build_rows"
    /\ idx <= Len(all_events)
    /\ LET r == BuildRow(module, all_events[idx]) IN
       IF IsRaise(r)
       THEN /\ pc' = "raised"
            /\ exc' = r[2]
            /\ UNCHANGED <<idx, processed_rows>>
       ELSE /\ processed_rows' = Append(processed_rows, r[2])
            /\ idx' = idx + 1
            /\ UNCHANGED <<pc, exc>>
    /\ UNCHANGED <<fetch, session, slots, endpoint, module, fn, all_events, calls, call_idx, ev_idx, frame, summaries>>

\* return processed_rows
BuildRowsReturn ==
    /\ pc = "build_rows"
    /\ idx > Len(all_events)
    /\ pc' = IF fn = "build_rows_dynamic" THEN "done" ELSE fn
    /\ UNCHANGED <<fetch, session, slots, endpoint, module, fn, all_events, idx, processed_rows, exc,
                   calls, call_idx, ev_idx, frame, summaries>>

-----------------------------------------------------------------------------
(* Keys, paths and sentinels of the summaries *)

K_path == "attributes.resource.url_path"
K_status == "attributes.resource.status_code"
K_method == "attributes.context.method"
K_reason == "attributes.context.reason"
K_eventType == "attributes.context.eventType"
K_eventDetail == "attributes.context.eventDetail"
K_totalCount == "attributes.context.totalCount"
K_usr == "attributes.usr.id"
K_tags == "tags"

P_ACTIVE == Str("/res/SDK_CALL_STATUS_ACTIVE")
P_STOPPING == Str("/res/SDK_CALL_STATUS_STOPPING")
P_request == Str("/res/requestVoiceCall")
P_accept == Str("/res/acceptCall")
P_reject == Str("/res/rejectCall")
P_end == Str("/res/endCall")
P_send == Str("/res/ENGINE_SendPackets")
P_receive(m) ==
    IF m = "transform" THEN Str("/res/ENGINE_ReceivePackets")
    ELSE Str("/res/ENGINE_ReceiveHealthCheck")

\* The duration sentinels (Korean texts in the source: "STOPPING <none>",
\* "ACTIVE <none>", "<time format error>").
NO_STOPPING == Str("NO_STOPPING")
NO_ACTIVE == Str("NO_ACTIVE")
PARSE_ERROR == Str("PARSE_ERROR")
NA == Str("N/A")

PacketCap == 3

-----------------------------------------------------------------------------
(* Durations *)

\* datetime.strptime(ts.replace(" KST", ""), "%Y-%m-%d %H:%M:%S.%f"):
\* <<"ok", ms>> or <<"raise", "ValueError">>. ts is a str here, since
\* "timestamp(KST)" is always written from iso_to_kst_ms.
Strptime(ts) == IF ts[1] = "kst" THEN <<"ok", ts[2]>> ELSE Raise("ValueError")

\* Mutant: the difference is shown in whole seconds.
DurationText_wholeSeconds(ms) == <<"dur", (ms \div 1000) * 10>>

\* f"{duration_seconds:.1f} <sec>" of a difference of whole milliseconds;
\* <<"dur", d>> is the text showing d tenths of a second. (The model's
\* instants keep differences off the ties x.x5.)
DurationText(ms) ==
    <<"dur", IF ms >= 0 THEN (ms + 50) \div 100 ELSE -((50 - ms) \div 100)>>

\* rum/transform.py: the duration of a call
DurationTransform(active_ts, stopping_ts) ==
    IF stopping_ts = None THEN NO_STOPPING
    ELSE IF active_ts = None THEN NO_ACTIVE
    ELSE LET stop_dt == Strptime(stopping_ts)
             active_dt == Strptime(active_ts)
         IN  IF IsRaise(stop_dt) \/ IsRaise(active_dt) THEN PARSE_ERROR
             ELSE DurationText(stop_dt[2] - active_dt[2])

\* OAM-WAS/main.py: parse_kst(ts), None when ts is falsy or does not parse
parse_kst(ts) ==
    IF ~Truthy(ts) THEN None
    ELSE IF IsRaise(Strptime(ts)) THEN None
    ELSE Strptime(ts)

\* Mutant: the missing STOPPING row is tested before the missing ACTIVE row.
DurationMain_stoppingFirst(active_ts, stopping_ts) ==
    LET stop_dt == parse_kst(stopping_ts)
        active_dt == parse_kst(active_ts)
    IN  IF stop_dt # None /\ active_dt # None
        THEN DurationText(stop_dt[2] - active_dt[2])
        ELSE IF ~Truthy(stopping_ts) THEN NO_STOPPING
        ELSE IF ~Truthy(active_ts) THEN NO_ACTIVE
        ELSE PARSE_ERROR

\* OAM-WAS/main.py: the duration of a call
DurationMain(active_ts, stopping_ts) ==
    LET stop_dt == parse_kst(stopping_ts)
        active_dt == parse_kst(active_ts)
    IN  IF stop_dt # None /\ active_dt # None
        THEN DurationText(stop_dt[2] - active_dt[2])
        ELSE IF ~Truthy(active_ts) THEN NO_ACTIVE
        ELSE IF ~Truthy(stopping_ts) THEN NO_STOPPING
        ELSE PARSE_ERROR

DurationStr(m, active_ts, stopping_ts) ==
    IF m = "transform" THEN DurationTransform(active_ts, stopping_ts)
    ELSE DurationMain(active_ts, stopping_ts)

-----------------------------------------------------------------------------
(* Grouping by Call ID *)

\* Mutant: every row opens a list of its own.
AppendTo_always(cs, cid, row) == Append(cs, <<cid, <<row>>>>)

\* calls[cid].append(row) on a defaultdict(list)
AppendTo(cs, cid, row) ==
    IF \E i \in 1..Len(cs) : cs[i][1] = cid
    THEN [i \in 1..Len(cs) |->
            IF cs[i][1] = cid THEN <<cid, Append(cs[i][2], row)>> ELSE cs[i]]
    ELSE Append(cs, <<cid, <<row>>>>)

\* Mutant: every row is grouped, under whatever row.get("Call ID") returns.
RECURSIVE GroupFrom_all(_, _)
GroupFrom_all(cs, rows) ==
    IF rows = <<>> THEN cs
    ELSE GroupFrom_all(AppendTo(cs, Get(Head(rows), K_CallID), Head(rows)), Tail(rows))

\* for row in flat_rows: cid = row.get("Call ID"); if cid: calls[cid].append(row)
RECURSIVE GroupFrom(_, _)
GroupFrom(cs, rows) ==
    IF rows = <<>> THEN cs
    ELSE LET cid == Get(Head(rows), K_CallID) IN
         GroupFrom(IF Truthy(cid) THEN AppendTo(cs, cid, Head(rows)) ELSE cs,
                   Tail(rows))

GroupByCallId(rows) == GroupFrom(<<>>, rows)

\* The rows of the call being summarised.
events == calls[call_idx][2]

-----------------------------------------------------------------------------
(* summarize_calls *)

\* Mutant: the start time is read from the first row and the end time from
\* the last.
SummarizeLocals_swapped(evs) ==
    [termination_reason |-> None, bye_reason |-> None,
     send_packets |-> <<>>, receive_packets |-> <<>>,
     request_status |-> None, accept_status |-> None,
     reject_status |-> None, end_status |-> None,
     active_ts |-> None, stopping_ts |-> None,
     overall_end_time_str |-> Get(evs[Len(evs)], K_ts),
     overall_start_time_str |-> Get(evs[1], K_ts),
     duration_str |-> Str("")]

\* The locals of one iteration of `for call_id, events in calls.items()`.
\* bye_reason exists in OAM-WAS/main.py only.
SummarizeLocals(evs) ==
    [termination_reason |-> None, bye_reason |-> None,
     send_packets |-> <<>>, receive_packets |-> <<>>,
     request_status |-> None, accept_status |-> None,
     reject_status |-> None, end_status |-> None,
     active_ts |-> None, stopping_ts |-> None,
     overall_end_time_str |-> Get(evs[1], K_ts),
     overall_start_time_str |-> Get(evs[Len(evs)], K_ts),
     duration_str |-> Str("")]

\* if event.get("attributes.context.method") == "BYE": bye_reason = ...
ByeReason(cur, event) ==
    IF Get(event, K_method) = Str("BYE") THEN Get(event, K_reason) ELSE cur

\* The termination reason composed from a STOPPING row, None when the row
\* has neither a truthy eventType nor a truthy eventDetail.
ComposeReason(event) ==
    LET event_type == Get(event, K_eventType)
        event_detail == Get(event, K_eventDetail)
        parts == (IF Truthy(event_type) THEN <<PyStr(event_type)>> ELSE <<>>)
                 \o (IF Truthy(event_detail)
                     THEN <<"(" \o PyStr(event_detail) \o ")">> ELSE <<>>)
    IN  IF parts # <<>> THEN Str(Join(" ", parts)) ELSE None

\* Mutant: the guard is missing, so every matching row overwrites.
Unset_missing(cur) == TRUE

\* `cur is None`: the first-wins guard of the scan loop
Unset(cur) == cur = None

\* Mutant: the reason is composed only on the row that sets stopping_ts.
StoppingBranch_sameRow(f, event) ==
    IF Unset(f.stopping_ts)
    THEN [f EXCEPT !.stopping_ts = Get(event, K_ts),
                   !.termination_reason = ComposeReason(event)]
    ELSE f

\* elif path == "/res/SDK_CALL_STATUS_STOPPING": ...
StoppingBranch(f, event) ==
    LET f1 == IF Unset(f.stopping_ts)
              THEN [f EXCEPT !.stopping_ts = Get(event, K_ts)] ELSE f
    IN  IF Unset(f1.termination_reason)
        THEN [f1 EXCEPT !.termination_reason = ComposeReason(event)]
        ELSE f1

\* Mutant: a null totalCount is appended as well.
AppendCount_nulls(packets, event) == Append(packets, Get(event, K_totalCount))

\* count = event.get("attributes.context.totalCount"); append when not None
AppendCount(packets, event) ==
    LET count == Get(event, K_totalCount) IN
    IF count # None THEN Append(packets, count) ELSE packets

\* The if/elif chain of the scan loop of summarize_calls.
SummarizeChain(m, f, event) ==
    LET path == Get(event, K_path)
        status_code == Get(event, K_status)
        timestamp_str == Get(event, K_ts)
    IN  IF path = P_ACTIVE /\ Unset(f.active_ts)
        THEN [f EXCEPT !.active_ts = timestamp_str]
        ELSE IF path = P_STOPPING THEN StoppingBranch(f, event)
        ELSE IF path = P_request /\ Unset(f.request_status)
        THEN [f EXCEPT !.request_status = status_code]
        ELSE IF path = P_accept /\ Unset(f.accept_status)
        THEN [f EXCEPT !.accept_status = status_code]
        ELSE IF path = P_reject /\ Unset(f.reject_status)
        THEN [f EXCEPT !.reject_status = status_code]
        ELSE IF path = P_end /\ Unset(f.end_status)
        THEN [f EXCEPT !.end_status = status_code]
        ELSE IF path = P_send /\ Len(f.send_packets) < PacketCap
        THEN [f EXCEPT !.send_packets = AppendCount(@, event)]
        ELSE IF path = P_receive(m) /\ Len(f.receive_packets) < PacketCap
        THEN [f EXCEPT !.receive_packets = AppendCount(@, event)]
        ELSE f

\* One iteration of `for event in events` of summarize_calls.
SummarizeStep(m, f, event) ==
    SummarizeChain(m,
        IF m = "main" THEN [f EXCEPT !.bye_reason = ByeReason(@, event)] ELSE f,
        event)

\* The dict appended to summaries.
SummaryOf(cid, f) ==
    [call_id |-> cid,
     start_time |-> f.overall_start_time_str,
     end_time |-> f.overall_end_time_str,
     duration |-> f.duration_str,
     termination_reason |-> f.termination_reason,
     bye_reason |-> f.bye_reason,
     request_status |-> f.request_status,
     accept_status |-> f.accept_status,
     reject_status |-> f.reject_status,
     end_status |-> f.end_status,
     send_packets |-> f.send_packets,
     receive_packets |-> f.receive_packets]

\* The order of the start-time display strings: "" sorts before every
\* "YYYY-MM-DD HH:MM:SS.mmm KST", and those sort by their instant.
TsOrd(ts) == IF ts[1] = "kst" THEN ts[2] ELSE -1

IsSortedDesc(seq) ==
    \A i \in 1..(Len(seq) - 1) : TsOrd(seq[i].start_time) >= TsOrd(seq[i + 1].start_time)

\* The orders of seq.
Perms(seq) ==
    {[i \in 1..Len(seq) |-> seq[p[i]]] :
        p \in {q \in [1..Len(seq) -> 1..Len(seq)] :
                  \A i, j \in 1..Len(seq) : i # j => q[i] # q[j]}}

\* summary_df.sort_values("Start Time (KST)", ascending=False): the default
\* sort is not stable, so equal start times may come out in any order.
SortValuesDesc(seq) == {s \in Perms(seq) : IsSortedDesc(s)}

\* The grouping loop of summarize_calls; `if not calls: return pd.DataFrame()`
\* (rum/transform.py), an empty loop in OAM-WAS/main.py.
SummarizeGroup ==
    /\ pc = "summarize_calls"
    /\ calls' = GroupByCallId(processed_rows)
    /\ pc' = IF calls' = <<>> THEN "done" ELSE "summarize_loop"
    /\ call_idx' = 1
    /\ ev_idx' = 0
    /\ UNCHANGED <<fetch, session, slots, endpoint, module, fn, all_events, idx, processed_rows, exc, frame, summaries>>

\* The head of the loop body: the locals are initialised.
SummarizeCallBegin ==
    /\ pc = "summarize_loop"
    /\ call_idx <= Len(calls)
    /\ ev_idx = 0
    /\ frame' = SummarizeLocals(events)
    /\ ev_idx' = 1
    /\ UNCHANGED <<fetch, session, slots, endpoint, module, fn, pc, all_events, idx, processed_rows, exc,
                   calls, call_idx, summaries>>

\* for event in events: one row is scanned.
SummarizeScan ==
    /\ pc = "summarize_loop"
    /\ call_idx <= Len(calls)
    /\ ev_idx \in 1..Len(events)
    /\ frame' = SummarizeStep(module, frame, events[ev_idx])
    /\ ev_idx' = ev_idx + 1
    /\ UNCHANGED <<fetch, session, slots, endpoint, module, fn, pc, all_events, idx, processed_rows, exc,
                   calls, call_idx, summaries>>

\* After the scan: the duration is computed and the summary appended.
SummarizeCallEnd ==
    /\ pc = "summarize_loop"
    /\ call_idx <= Len(calls)
    /\ ev_idx > Len(events)
    /\ frame' = [frame EXCEPT !.duration_str =
                    DurationStr(module, frame.active_ts, frame.stopping_ts)]
    /\ summaries' = Append(summaries, SummaryOf(calls[call_idx][1], frame'))
    /\ call_idx' = call_idx + 1
    /\ ev_idx' = 0
    /\ UNCHANGED <<fetch, session, slots, endpoint, module, fn, pc, all_events, idx, processed_rows, exc, calls>>

\* return: rum/transform.py sorts the summaries by start time, descending.
SummarizeReturn ==
    /\ pc = "summarize_loop"
    /\ call_idx > Len(calls)
    /\ summaries' \in (IF module = "transform" THEN SortValuesDesc(summaries)
                       ELSE {summaries})
    /\ pc' = "done"
    /\ UNCHANGED <<fetch, session, slots, endpoint, module, fn, all_events, idx, processed_rows, exc,
                   calls, call_idx, ev_idx, frame>>

-----------------------------------------------------------------------------
(* analyze_rtp_timeouts (OAM-WAS/main.py) *)

\* isinstance(reason, str) and "rtp" in reason.lower()
IsRtpReason(reason) == reason[1] = "str" /\ Contains(Lower(reason[2]), "rtp")

\* The first loop: the Call IDs of the rows whose reason mentions rtp.
rtp_timeout_call_ids(rows) ==
    {Get(rows[i], K_CallID) : i \in
        {j \in 1..Len(rows) :
            /\ IsRtpReason(GetD(rows[j], K_reason, Str("")))
            /\ Truthy(Get(rows[j], K_CallID))}}

\* for row in flat_rows: if cid in rtp_timeout_call_ids: calls[cid].append(row)
RECURSIVE GroupIn(_, _, _)
GroupIn(cs, rows, ids) ==
    IF rows = <<>> THEN cs
    ELSE LET cid == Get(Head(rows), K_CallID) IN
         GroupIn(IF cid \in ids THEN AppendTo(cs, cid, Head(rows)) ELSE cs,
                 Tail(rows), ids)

\* s.strip() for blanks
RECURSIVE Strip(_)
Strip(s) ==
    IF s = "" THEN ""
    ELSE IF SubSeq(s, 1, 1) = " " THEN Strip(SubSeq(s, 2, Len(s)))
    ELSE IF SubSeq(s, Len(s), Len(s)) = " " THEN Strip(SubSeq(s, 1, Len(s) - 1))
    ELSE s

\* The longest run of characters other than "," that starts s.
RECURSIVE UptoComma(_)
UptoComma(s) ==
    IF s = "" \/ SubSeq(s, 1, 1) = "," THEN ""
    ELSE SubSeq(s, 1, 1) \o UptoComma(SubSeq(s, 2, Len(s)))

VersionToken == "first_version:"

\* Mutant: the value is not stripped.
FirstVersion_unstripped(tags_str) ==
    IF tags_str[1] # "str" THEN NA
    ELSE LET t == tags_str[2]
             n == Len(VersionToken)
             starts == {i \in 1..(Len(t) - n) :
                          /\ SubSeq(t, i, i + n - 1) = VersionToken
                          /\ SubSeq(t, i + n, i + n) # ","}
         IN  IF starts = {} THEN NA
             ELSE LET i == CHOOSE x \in starts : \A y \in starts : x <= y
                  IN  Str(UptoComma(SubSeq(t, i + n, Len(t))))

\* m = re.search(r"first_version:([^,]+)", tags_str); m.group(1).strip(),
\* "N/A" without a match.
FirstVersion(tags_str) ==
    IF tags_str[1] # "str" THEN NA
    ELSE LET t == tags_str[2]
             n == Len(VersionToken)
             starts == {i \in 1..(Len(t) - n) :
                          /\ SubSeq(t, i, i + n - 1) = VersionToken
                          /\ SubSeq(t, i + n, i + n) # ","}
         IN  IF starts = {} THEN NA
             ELSE LET i == CHOOSE x \in starts : \A y \in starts : x <= y
                  IN  Str(Strip(UptoComma(SubSeq(t, i + n, Len(t)))))

\* for e in events: if e.get("attributes.usr.id"): usr_id = ...; break
FirstUsrId(evs) ==
    LET hits == {i \in 1..Len(evs) : Truthy(Get(evs[i], K_usr))} IN
    IF hits = {} THEN NA
    ELSE Get(evs[CHOOSE x \in hits : \A y \in hits : x <= y], K_usr)

\* The locals of one iteration of `for call_id, events in calls.items()`.
RtpLocals(evs) ==
    [active_ts |-> None, stopping_ts |-> None,
     bye_method_source |-> NA, rtp_timeout_reason |-> NA,
     usr_id |-> FirstUsrId(evs),
     first_version |-> FirstVersion(GetD(evs[1], K_tags, Str(""))),
     overall_end_time_str |-> Get(evs[1], K_ts),
     overall_start_time_str |-> Get(evs[Len(evs)], K_ts),
     duration_str |-> Str("")]

\* Mutant: sendmessage is tested before longres.
ByeChannel_sendFirst(lp) ==
    IF Contains(lp, "sendmessage") THEN Str("sendMessage")
    ELSE IF Contains(lp, "longres") THEN Str("longRes")
    ELSE IF Contains(lp, "restreq") THEN Str("restReq")
    ELSE IF Contains(lp, "recvmessage") THEN Str("recvMessage")
    ELSE Str("Unknown")

\* The keyword chain on lp = path.lower()
ByeChannel(lp) ==
    IF Contains(lp, "longres") THEN Str("longRes")
    ELSE IF Contains(lp, "restreq") THEN Str("restReq")
    ELSE IF Contains(lp, "sendmessage") THEN Str("sendMessage")
    ELSE IF Contains(lp, "recvmessage") THEN Str("recvMessage")
    ELSE Str("Unknown")

\* if e.get("attributes.context.method") == "BYE": bye_method_source = ...
\* The label after the row, or <<"raise", "AttributeError">> when path has
\* no lower().
ByeMethodSource(cur, e) ==
    LET path == GetD(e, K_path, Str("")) IN
    IF Get(e, K_method) # Str("BYE") THEN cur
    ELSE IF path[1] # "str" THEN Raise("AttributeError")
    ELSE ByeChannel(Lower(path[2]))

\* One iteration of `for e in events` of analyze_rtp_timeouts, up to the
\* BYE test.
RtpStep(f, e) ==
    LET path == GetD(e, K_path, Str(""))
        ts == Get(e, K_ts)
        reason == GetD(e, K_reason, Str(""))
        f1 == IF IsRtpReason(reason) /\ f.rtp_timeout_reason = NA
              THEN [f EXCEPT !.rtp_timeout_reason = reason] ELSE f
    IN  IF path = P_ACTIVE /\ f1.active_ts = None
        THEN [f1 EXCEPT !.active_ts = ts]
        ELSE IF path = P_STOPPING /\ f1.stopping_ts = None
        THEN [f1 EXCEPT !.stopping_ts = ts]
        ELSE f1

\* The dict appended to results.
RtpRecordOf(cid, f) ==
    [call_id |-> cid,
     app_version |-> f.first_version,
     start_time |-> f.overall_start_time_str,
     end_time |-> f.overall_end_time_str,
     duration |-> f.duration_str,
     bye_reason |-> f.rtp_timeout_reason,
     bye_delivery |-> f.bye_method_source,
     usr_id |-> f.usr_id]

\* sorted(results, key=start time, reverse=True): stable, so records with
\* equal start times keep their order.
RECURSIVE InsertDesc(_, _)
InsertDesc(sorted, r) ==
    IF sorted = <<>> THEN <<r>>
    ELSE IF TsOrd(r.start_time) > TsOrd(Head(sorted).start_time)
    THEN <<r>> \o sorted
    ELSE <<Head(sorted)>> \o InsertDesc(Tail(sorted), r)

\* Mutant: the records are returned in the order they were built.
SortedDesc_asBuilt(seq) == seq

RECURSIVE SortedDesc(_)
SortedDesc(seq) ==
    IF seq = <<>> THEN <<>>
    ELSE InsertDesc(SortedDesc(SubSeq(seq, 1, Len(seq) - 1)), seq[Len(seq)])

\* The two loops that collect the rtp Call IDs and group their rows;
\* `if not rtp_timeout_call_ids: return []`.
RtpCollect ==
    /\ pc = "analyze_rtp_timeouts"
    /\ LET ids == rtp_timeout_call_ids(processed_rows) IN
       /\ calls' = IF ids = {} THEN <<>> ELSE GroupIn(<<>>, processed_rows, ids)
       /\ pc' = IF ids = {} THEN "done" ELSE "rtp_loop"
    /\ call_idx' = 1
    /\ ev_idx' = 0
    /\ UNCHANGED <<fetch, session, slots, endpoint, module, fn, all_events, idx, processed_rows, exc, frame, summaries>>

\* The head of the loop body: version, user id, start and end time.
RtpCallBegin ==
    /\ pc = "rtp_loop"
    /\ call_idx <= Len(calls)
    /\ ev_idx = 0
    /\ frame' = RtpLocals(events)
    /\ ev_idx' = 1
    /\ UNCHANGED <<fetch, session, slots, endpoint, module, fn, pc, all_events, idx, processed_rows, exc,
                   calls, call_idx, summaries>>

\* for e in events: one row is scanned; path.lower() may raise.
RtpScan ==
    /\ pc = "rtp_loop"
    /\ call_idx <= Len(calls)
    /\ ev_idx \in 1..Len(events)
    /\ LET f == RtpStep(frame, events[ev_idx])
           src == ByeMethodSource(f.bye_method_source, events[ev_idx])
       IN  IF IsRaise(src)
           THEN /\ pc' = "raised"
                /\ exc' = src[2]
                /\ frame' = f
                /\ UNCHANGED ev_idx
           ELSE /\ frame' = [f EXCEPT !.bye_method_source = src]
                /\ ev_idx' = ev_idx + 1
                /\ UNCHANGED <<pc, exc>>
    /\ UNCHANGED <<fetch, session, slots, endpoint, module, fn, all_events, idx, processed_rows,
                   calls, call_idx, summaries>>

\* After the scan: the duration is computed and the record appended.
RtpCallEnd ==
    /\ pc = "rtp_loop"
    /\ call_idx <= Len(calls)
    /\ ev_idx > Len(events)
    /\ frame' = [frame EXCEPT !.duration_str =
                    DurationMain(frame.active_ts, frame.stopping_ts)]
    /\ summaries' = Append(summaries, RtpRecordOf(calls[call_idx][1], frame'))
    /\ call_idx' = call_idx + 1
    /\ ev_idx' = 0
    /\ UNCHANGED <<fetch, session, slots, endpoint, module, fn, pc, all_events, idx, processed_rows, exc, calls>>

\* return sorted(results, ..., reverse=True)
RtpReturn ==
    /\ pc = "rtp_loop"
    /\ call_idx > Len(calls)
    /\ summaries' = SortedDesc(summaries)
    /\ pc' = "done"
    /\ UNCHANGED <<fetch, session, slots, endpoint, module, fn, all_events, idx, processed_rows, exc,
                   calls, call_idx, ev_idx, frame>>

-----------------------------------------------------------------------------
(* rum_rtp_analysis and _rum_search (OAM-WAS/main.py) *)

\* The value of endpoint in requests that do not go through rum_rtp_analysis.
NoEndpoint ==
    [store |-> <<>>, limit_per_page |-> 1, max_pages |-> 1, phase |-> 0,
     cursor |-> 0, pages |-> 0, call_ids |-> {}, full_query |-> "",
     posts |-> <<>>]

\* The context attribute k of a raw event, None when absent.
ContextOf(event, k) ==
    LET attrs == RawGetD(event, "attributes", Dict(<<>>))
        inner == RawGetD(attrs, "attributes", Dict(<<>>))
    IN  RawGet(RawGetD(inner, "context", Dict(<<>>)), k)

\* Datadog: the event matches @context.reason:(*RTP* OR *rtp*)
MatchesRtpQuery(event) ==
    LET reason == ContextOf(event, "reason") IN
    reason[1] = "str" /\ (Contains(reason[2], "RTP") \/ Contains(reason[2], "rtp"))

\* The characters of the model's texts (blank, punctuation, digits,
\* letters) in code-point order.
Ascii ==
    " !" \o "\"" \o "#$%&()*+,-./0123456789:;<=>?@"
    \o "ABCDEFGHIJKLMNOPQRSTUVWXYZ" \o "_" \o "abcdefghijklmnopqrstuvwxyz"

\* The rank of a character in that order, which is the order of ord(c).
CharCode(c) == CHOOSE i \in 1..Len(Ascii) : SubSeq(Ascii, i, i) = c

\* a < b on str texts: the comparison sorted() makes
RECURSIVE StrLess(_, _)
StrLess(a, b) ==
    IF b = "" THEN FALSE
    ELSE IF a = "" THEN TRUE
    ELSE IF SubSeq(a, 1, 1) # SubSeq(b, 1, 1)
    THEN CharCode(SubSeq(a, 1, 1)) < CharCode(SubSeq(b, 1, 1))
    ELSE StrLess(SubSeq(a, 2, Len(a)), SubSeq(b, 2, Len(b)))

\* x < y on two Call IDs of one type
IdLess(x, y) == IF x[1] = "int" THEN x[2] < y[2] ELSE StrLess(x[2], y[2])

\* sorted(ids) raises TypeError when a str has to be compared with an int.
SortRaises(ids) == \E x, y \in ids : (x[1] = "int") # (y[1] = "int")

\* sorted(ids): the ascending sequence of a set of Call IDs of one type
SortedIds(ids) ==
    CHOOSE q \in [1..Cardinality(ids) -> ids] :
        \A i, j \in 1..Cardinality(ids) : i < j => IdLess(q[i], q[j])

\* The Call ID between double quotes.
Quoted(cid) == "\"" \o PyStr(cid) \o "\""

\* The quoted Call IDs joined with " OR ".
call_id_query_part(call_ids) ==
    Join(" OR ", [i \in 1..Len(call_ids) |-> Quoted(call_ids[i])])

\* The composite query: the part under @context.callID and @context.callId.
full_query(part) ==
    "(@context.callID:(" \o part \o ") OR @context.callId:(" \o part \o "))"

\* Datadog: the event matches the composite query: the quoted text of its
\* callID or of its callId is one of the terms of the query.
MatchesCallIdQuery(event, query) ==
    \E k \in {"callID", "callId"} :
        /\ ContextOf(event, k) # None
        /\ Contains(query, Quoted(ContextOf(event, k)))

\* Datadog: the events a search of the given phase selects, newest first.
SearchResult(e) ==
    IF e.phase = 1 THEN SelectSeq(e.store, MatchesRtpQuery)
    ELSE SelectSeq(e.store, LAMBDA ev : MatchesCallIdQuery(ev, e.full_query))

\* payload["data"] of page p (1-based) of a result, limit events a page
PageData(result, p, limit) ==
    SubSeq(result, (p - 1) * limit + 1,
           IF p * limit < Len(result) THEN p * limit ELSE Len(result))

\* Mutant: no page has a cursor.
NextCursor_none(result, p, limit) == 0

\* payload["meta"]["page"]["after"]: the next page, 0 (no cursor) after the
\* last one
NextCursor(result, p, limit) == IF p * limit < Len(result) THEN p + 1 ELSE 0

\* {row.get("Call ID") for row in flat_rtp if row.get("Call ID")}
CallIdsOf(rows) ==
    {Get(rows[i], K_CallID) : i \in {j \in 1..Len(rows) : Truthy(Get(rows[j], K_CallID))}}

\* One iteration of `for _ in range(req.max_pages)` of _rum_search: a page
\* is posted for and its events are appended; without a cursor (or after
\* max_pages pages) the search returns and build_rows_dynamic starts.
SearchPage ==
    /\ pc = "rum_search"
    /\ endpoint.pages < endpoint.max_pages
    /\ LET p == IF endpoint.cursor = 0 THEN 1 ELSE endpoint.cursor
           result == SearchResult(endpoint)
           after == NextCursor(result, p, endpoint.limit_per_page)
       IN  /\ all_events' = all_events \o PageData(result, p, endpoint.limit_per_page)
           /\ endpoint' = [endpoint EXCEPT !.cursor = after, !.pages = @ + 1,
                                           !.posts = Append(@, <<endpoint.phase, p>>)]
           /\ pc' = IF after = 0 \/ endpoint.pages + 1 = endpoint.max_pages
                    THEN "build_rows" ELSE "rum_search"
    /\ idx' = 1
    /\ processed_rows' = <<>>
    /\ UNCHANGED <<fetch, session, slots, module, fn, exc, calls, call_idx, ev_idx, frame, summaries>>

\* call_ids = sorted({...}); `if not call_ids: return` with no calls;
\* otherwise the second search is set up.
CollectCallIds ==
    /\ pc = "collect_call_ids"
    /\ LET ids == CallIdsOf(processed_rows)
           call_ids == SortedIds(ids)
       IN  IF SortRaises(ids)
           THEN /\ pc' = "raised"
                /\ exc' = "TypeError"
                /\ UNCHANGED <<fn, all_events, idx, processed_rows, endpoint, summaries>>
           ELSE IF ids = {}
           THEN /\ pc' = "done"
                /\ summaries' = <<>>
                /\ UNCHANGED <<fn, all_events, idx, processed_rows, endpoint, exc>>
           ELSE /\ endpoint' = [endpoint EXCEPT
                                   !.phase = 2, !.call_ids = ids,
                                   !.full_query = full_query(call_id_query_part(call_ids)),
                                   !.cursor = 0, !.pages = 0]
                /\ all_events' = <<>>
                /\ processed_rows' = <<>>
                /\ idx' = 1
                /\ fn' = "analyze_rtp_timeouts"
                /\ pc' = "rum_search"
                /\ UNCHANGED <<summaries, exc>>
    /\ UNCHANGED <<fetch, session, slots, module, calls, call_idx, ev_idx, frame>>

-----------------------------------------------------------------------------
(* The paginated fetch: search_rum_events_usr_id (rum/datadog_api.py and
   streamlit_app.py) and _rum_search (OAM-WAS/main.py), against a server
   that may answer anything *)

\* The value of fetch in requests that do not fetch.
NoFetch ==
    [server |-> {}, max_pages |-> 0, cursor |-> None, turn |-> 0, requests |-> <<>>,
     responses |-> <<>>, all_events |-> <<>>, returned |-> FALSE, result |-> <<>>]

\* attrs.get(k, {}) or {}, then .get(sub), when attrs.get(k) is a dict;
\* None otherwise.
SubField(attrs, k, sub) ==
    IF IsDict(RawGet(attrs, k))
    THEN RawGet(PyOr(RawGetD(attrs, k, Dict(<<>>)), Dict(<<>>)), sub)
    ELSE None

\* _row(e): the simple row of an event, or the exception iso_to_kst_ms raises.
_row(e) ==
    LET attrs == PyOr(RawGetD(e, "attributes", Dict(<<>>)), Dict(<<>>))
        kst_str == iso_to_kst_ms(RawGet(attrs, "timestamp"))
        action == PyOr(RawGetD(attrs, "action", Dict(<<>>)), Dict(<<>>))
        target == PyOr(RawGetD(action, "target", Dict(<<>>)), Dict(<<>>))
    IN  IF IsRaise(kst_str) THEN kst_str
        ELSE <<"ok",
               (K_ts :> kst_str) @@ ("type" :> RawGet(attrs, "type")) @@
               ("service" :> RawGet(attrs, "service")) @@
               ("view.url" :> SubField(attrs, "view", "url")) @@
               ("session.id" :> SubField(attrs, "session", "id")) @@
               ("usr.id" :> SubField(attrs, "usr", "id")) @@
               ("action.target.name" :>
                   (IF IsDict(RawGet(attrs, "action")) THEN RawGet(target, "name") ELSE None)) @@
               ("error.message" :> SubField(attrs, "error", "message"))>>

\* rows = [_row(e) for e in all_events]: <<"ok", rows>> or the exception.
RECURSIVE SimpleRows(_)
SimpleRows(evs) ==
    IF evs = <<>> THEN <<"ok", <<>>>>
    ELSE LET r == _row(Head(evs))
             rest == SimpleRows(Tail(evs))
         IN  IF IsRaise(r) THEN r
             ELSE IF IsRaise(rest) THEN rest
             ELSE <<"ok", <<r[2]>> \o rest[2]>>

\* Mutant: a failed page returns what the earlier pages brought.
ErrorReturn_collected(evs) == <<SimpleRows(evs)[2], evs>>

\* return [], [] after a response whose status is not 200
ErrorReturn(evs) == << <<>>, <<>> >>

\* Mutant: the loop never breaks.
Break_never(cursor) == FALSE

\* if not cursor: break
Break(cursor) == ~Truthy(cursor)

\* The files whose fetch returns the pair (rows, all_events); app.py calls
\* the one of rum/datadog_api.py.
ReturnsPair(m) == m \in {"datadog_api", "streamlit", "app"}

\* One iteration of `for _ in range(max_pages)`: the request is sent with
\* the cursor of the body, and the server answers with resp. A status other
\* than 200 makes search_rum_events_usr_id return and client.post raise; a
\* request that fails in transport and a body whose meta is null raise.
FetchPageWith(resp) ==
    LET sent == IF Truthy(fetch.cursor) THEN fetch.cursor ELSE Absent
        f1 == [fetch EXCEPT !.requests = Append(@, sent),
                            !.responses = Append(@, resp),
                            !.turn = @ + 1]
        f2 == [f1 EXCEPT !.all_events = @ \o resp.data,
                         !.cursor = IF resp.after = Absent THEN None ELSE resp.after]
    IN  CASE resp.kind = "transport" ->
                /\ fetch' = f1
                /\ pc' = "raised"
                /\ exc' = IF module = "main" THEN "HTTPException" ELSE "RequestException"
          [] resp.kind = "status" /\ module = "main" ->
                /\ fetch' = f1
                /\ pc' = "raised"
                /\ exc' = "HTTPException"
          [] resp.kind = "status" /\ module # "main" ->
                /\ fetch' = [f1 EXCEPT !.result = ErrorReturn(f1.all_events),
                                     !.returned = TRUE]
                /\ pc' = IF module = "app" THEN "run" ELSE "done"
                /\ UNCHANGED exc
          [] resp.kind = "malformed" ->
                /\ fetch' = [f1 EXCEPT !.all_events = @ \o resp.data]
                /\ pc' = "raised"
                /\ exc' = "AttributeError"
          [] resp.kind = "ok" ->
                /\ fetch' = f2
                /\ pc' = IF Break(f2.cursor) \/ f2.turn >= f2.max_pages
                         THEN "fetch_return" ELSE "fetch"
                /\ UNCHANGED exc

FetchPage ==
    /\ pc = "fetch"
    /\ \E resp \in fetch.server : FetchPageWith(resp)
    /\ UNCHANGED <<session, slots, endpoint, module, fn, all_events, idx, processed_rows,
                   calls, call_idx, ev_idx, frame, summaries>>

\* After the loop: the pair (rows, all_events) of search_rum_events_usr_id,
\* the dict of _rum_search.
FetchReturn ==
    /\ pc = "fetch_return"
    /\ IF ReturnsPair(module)
       THEN LET rows == SimpleRows(fetch.all_events) IN
            IF IsRaise(rows)
            THEN /\ pc' = "raised"
                 /\ exc' = rows[2]
                 /\ UNCHANGED fetch
            ELSE /\ fetch' = [fetch EXCEPT !.result = <<rows[2], fetch.all_events>>,
                                        !.returned = TRUE]
                 /\ pc' = IF module = "app" THEN "run" ELSE "done"
                 /\ UNCHANGED exc
       ELSE /\ fetch' = [fetch EXCEPT !.returned = TRUE, !.result =
                            [data |-> fetch.all_events,
                             meta |-> [pages |-> fetch.turn - 1, cursor |-> fetch.cursor]]]
            /\ pc' = "done"
            /\ UNCHANGED exc
    /\ UNCHANGED <<session, slots, endpoint, module, fn, all_events, idx, processed_rows,
                   calls, call_idx, ev_idx, frame, summaries>>

-----------------------------------------------------------------------------
(* sanitize_pin_slots and effective_hidden (rum/helpers.py, rum/ui.py,
   app.py) *)

\* The value of slots in requests that do not call sanitize_pin_slots.
NoSlots ==
    [slot_values |-> <<>>, visible_candidates |-> <<>>, count |-> 0,
     fixed_pin |-> Str(""), out |-> <<>>]

\* Mutant: a value is taken again when it was seen before.
Keep_repeats(c, allow, seen, fixed_pin) ==
    c # Str("") /\ c \in allow /\ c # fixed_pin

\* if c and c in allow and c not in seen and c != fixed_pin
Keep(c, allow, seen, fixed_pin) ==
    c # Str("") /\ c \in allow /\ c \notin seen /\ c # fixed_pin

\* The for loop of sanitize_pin_slots from the state (seen, out) on;
\* c = (v or "").strip()
RECURSIVE SanitizeLoop(_, _, _, _, _)
SanitizeLoop(slot_values, allow, fixed_pin, seen, out) ==
    IF slot_values = <<>> THEN out
    ELSE LET c == Str(Strip(PyOr(Head(slot_values), Str(""))[2])) IN
         IF Keep(c, allow, seen, fixed_pin)
         THEN SanitizeLoop(Tail(slot_values), allow, fixed_pin, seen \cup {c}, Append(out, c))
         ELSE SanitizeLoop(Tail(slot_values), allow, fixed_pin, seen, out)

\* out += [""] * (count - len(out)); return out[:count], for count >= 0
PadTo(out, count) ==
    SubSeq(out \o [i \in 1..(count - Len(out)) |-> Str("")], 1, count)

\* sanitize_pin_slots with allow = set(visible_candidates) given
SanitizeAllowed(slot_values, allow, count, fixed_pin) ==
    PadTo(SanitizeLoop(slot_values, allow, fixed_pin, {}, <<>>), count)

sanitize_pin_slots(slot_values, visible_candidates, count, fixed_pin) ==
    SanitizeAllowed(slot_values,
                    {visible_candidates[i] : i \in 1..Len(visible_candidates)},
                    count, fixed_pin)

\* A call of sanitize_pin_slots on the arguments held in slots.
SanitizeCall ==
    /\ pc = "sanitize_pin_slots"
    /\ slots' = [slots EXCEPT !.out =
                    sanitize_pin_slots(slots.slot_values, slots.visible_candidates,
                                       slots.count, slots.fixed_pin)]
    /\ pc' = "done"
    /\ UNCHANGED <<fetch, session, endpoint, module, fn, all_events, idx, processed_rows,
                   exc, calls, call_idx, ev_idx, frame, summaries>>

-----------------------------------------------------------------------------
(* app.py: the session state and the search run *)

FIXED_PIN == Str(K_path)

PIN_COUNT == 10

\* DEFAULT_HIDDEN_COLUMNS (rum/config.py): the entries that name columns of
\* the rows of the model.
DEFAULT_HIDDEN_COLUMNS == {Str("tags"), Str("attributes.usr.id"), Str("timestamp")}

\* The session state after the initialisation block of app.py.
NoSession ==
    [df_base |-> None, df_view |-> None, df_summary |-> None,
     hide_defaults |-> DEFAULT_HIDDEN_COLUMNS,
     hidden_cols_user |-> <<>>,
     pin_slots |-> [i \in 1..PIN_COUNT |-> Str("")],
     pending_hidden_cols_user |-> <<>>,
     pending_pin_slots |-> [i \in 1..PIN_COUNT |-> Str("")]]

\* effective_hidden(all_cols, user_hidden) of app.py, as a set (the code
\* returns it sorted)
effective_hidden(all_cols, user_hidden) ==
    ((session.hide_defaults \cup {user_hidden[i] : i \in 1..Len(user_hidden)})
        \cap all_cols) \ {FIXED_PIN}

\* build_rows_dynamic(all_events) as one value: <<"ok", rows>> or the
\* exception of the first event that raises.
RECURSIVE build_rows_dynamic(_, _)
build_rows_dynamic(m, evs) ==
    IF evs = <<>> THEN <<"ok", <<>>>>
    ELSE LET r == BuildRow(m, Head(evs)) IN
         IF IsRaise(r) THEN r
         ELSE LET rest == build_rows_dynamic(m, Tail(evs)) IN
              IF IsRaise(rest) THEN rest ELSE <<"ok", <<r[2]>> \o rest[2]>>

\* for event in events of summarize_calls, from the locals f on
RECURSIVE ScanAll(_, _, _)
ScanAll(m, f, evs) ==
    IF evs = <<>> THEN f ELSE ScanAll(m, SummarizeStep(m, f, Head(evs)), Tail(evs))

\* The summary of one call <<call_id, events>>.
SummarizeCall(m, call) ==
    LET f == ScanAll(m, SummarizeLocals(call[2]), call[2])
    IN  SummaryOf(call[1],
                  [f EXCEPT !.duration_str = DurationStr(m, f.active_ts, f.stopping_ts)])

\* summarize_calls(flat_rows) of rum/transform.py as one value: the frames
\* it may return (the order of equal start times is not fixed).
summarize_calls(rows) ==
    LET cs == GroupByCallId(rows)
    IN  SortValuesDesc([i \in 1..Len(cs) |-> SummarizeCall("transform", cs[i])])

\* to_base_dataframe(flat_rows): the columns and the rows, newest first
\* (rows without a timestamp last); the frames it may return.
to_base_dataframe(flat_rows) ==
    {[columns |-> UNION {{Str(k) : k \in DOMAIN flat_rows[i]} : i \in 1..Len(flat_rows)},
      rows |-> rs] :
        rs \in {p \in Perms(flat_rows) :
                   \A i \in 1..(Len(p) - 1) : TsOrd(p[i][K_ts]) >= TsOrd(p[i + 1][K_ts])}}

\* apply_view_filters(df, auto_hide_sparse=False, hidden_cols=...)
apply_view_filters(df, hidden_cols) ==
    LET drops == {c \in hidden_cols : c \in df.columns /\ c # Str(K_ts)}
        keep == df.columns \ drops
    IN  [columns |-> keep,
         rows |-> [i \in 1..Len(df.rows) |->
                     [k \in {x \in DOMAIN df.rows[i] : Str(x) \in keep} |-> df.rows[i][k]]]]

\* The session after the else branch of `if not raw_events` with the frames
\* df_summary and df_base.
SessionLoaded(df_summary, df_base) ==
    LET cols_now == df_base.columns \ {Str(K_ts)}
        hidden_cols_user == SelectSeq(session.hidden_cols_user, LAMBDA c : c \in cols_now)
        eff_hidden_proposed == effective_hidden(cols_now, hidden_cols_user)
        visible_candidates_after == (cols_now \ eff_hidden_proposed) \ {FIXED_PIN}
        pin_slots == SanitizeAllowed(session.pin_slots, visible_candidates_after,
                                     PIN_COUNT, FIXED_PIN)
        eff_hidden_applied == effective_hidden(cols_now, hidden_cols_user)
    IN  [session EXCEPT !.df_summary = df_summary,
                        !.df_base = df_base,
                        !.hidden_cols_user = hidden_cols_user,
                        !.pending_hidden_cols_user = hidden_cols_user,
                        !.pin_slots = pin_slots,
                        !.pending_pin_slots = pin_slots,
                        !.df_view = apply_view_filters(df_base, eff_hidden_applied)]

\* The `if run:` block after the search returned: raw_events is the pair
\* (rows, all_events) that search_rum_events_usr_id returns, `not raw_events`
\* tests that pair, and build_rows_dynamic iterates over it.
AppRun ==
    /\ pc = "run"
    /\ LET raw_events == <<List(fetch.result[1]), List(fetch.result[2])>> IN
       IF Len(raw_events) = 0
       THEN /\ session' = [session EXCEPT !.df_base = None, !.df_view = None,
                                          !.df_summary = None]
            /\ pc' = "rendered"
            /\ UNCHANGED exc
       ELSE LET flat_rows == build_rows_dynamic("transform", raw_events) IN
            IF IsRaise(flat_rows)
            THEN /\ pc' = "raised"
                 /\ exc' = flat_rows[2]
                 /\ UNCHANGED session
            ELSE /\ \E df_summary \in summarize_calls(flat_rows[2]) :
                    \E df_base \in to_base_dataframe(flat_rows[2]) :
                       session' = SessionLoaded(df_summary, df_base)
                 /\ pc' = "rendered"
                 /\ UNCHANGED exc
    /\ UNCHANGED <<fetch, slots, endpoint, module, fn, all_events, idx, processed_rows,
                   calls, call_idx, ev_idx, frame, summaries>>

-----------------------------------------------------------------------------
(* Raw events of the batches *)

Opt(k, v) == IF v = Absent THEN <<>> ELSE << <<k, v>> >>

Blank ==
    [ts |-> Absent, tags |-> Absent, callID |-> Absent, callId |-> Absent,
     CallIDs |-> Absent, method |-> Absent, reason |-> Absent,
     eventType |-> Absent, eventDetail |-> Absent, totalCount |-> Absent,
     url_path |-> Absent, status_code |-> Absent, usr_id |-> Absent,
     usr |-> Absent]

\* The event of the search response that carries the given leaves.
MkEvent(f) ==
    Dict(<< <<"attributes", Dict(
        Opt("timestamp", f.ts) \o Opt("tags", f.tags) \o Opt("usr", f.usr) \o
        << <<"attributes", Dict(<<
            <<"context", Dict(
                Opt("callID", f.callID) \o Opt("callId", f.callId) \o
                Opt("CallIDs", f.CallIDs) \o Opt("method", f.method) \o
                Opt("reason", f.reason) \o Opt("eventType", f.eventType) \o
                Opt("eventDetail", f.eventDetail) \o
                Opt("totalCount", f.totalCount))>>,
            <<"resource", Dict(
                Opt("url_path", f.url_path) \o
                Opt("status_code", f.status_code))>>,
            <<"usr", Dict(Opt("id", f.usr_id))>> >>)>> >>)>> >>)

Batches(menu, n) == UNION {[1..k -> menu] : k \in 0..n}

InitWith(modules, fns, batches) ==
    /\ module \in modules
    /\ fn \in fns
    /\ module = "transform" => fn # "analyze_rtp_timeouts"
    /\ all_events \in batches
    /\ pc = "build_rows"
    /\ idx = 1
    /\ processed_rows = <<>>
    /\ exc = ""
    /\ calls = <<>>
    /\ call_idx = 0
    /\ ev_idx = 0
    /\ frame = <<>>
    /\ summaries = <<>>
    /\ endpoint = NoEndpoint
    /\ fetch = NoFetch
    /\ session = NoSession
    /\ slots = NoSlots

-----------------------------------------------------------------------------
(* SpecRows: build_rows_dynamic alone, on events whose Call-ID candidates   *)
(* and timestamp vary.                                                     *)

MaxRowEvents == 2

RowsMenu ==
    {MkEvent([Blank EXCEPT !.ts = Iso(1500), !.callID = a, !.callId = b, !.CallIDs = c]) :
        a \in {Absent, None, Str(""), Num(0), Str("A")},
        b \in {Absent, Str(""), Str("B")},
        c \in {Absent, List(<<Str("C")>>)}}
    \cup
    {MkEvent([Blank EXCEPT !.ts = t, !.callID = Str("A")]) :
        t \in {Absent, None, Str(""), Str("not-a-date"), Num(1700000000)}}
    \cup
    {MkEvent([Blank EXCEPT !.ts = Iso(1500), !.callID = Str("A"), !.tags = g, !.usr = u]) :
        g \in {Absent, Str("env:prod"), List(<<Str("env:prod"), Str("first_version:1.0")>>)},
        u \in {Absent, Dict(<< <<"id", Str("u1")>>, <<"roles", List(<<Str("admin")>>)>> >>)}}

InitRows == InitWith({"transform", "main"}, {"build_rows_dynamic"},
                     Batches(RowsMenu, MaxRowEvents))

NextRows == BuildRowsStep \/ BuildRowsReturn

SpecRows == InitRows /\ [][NextRows]_vars

-----------------------------------------------------------------------------
(* Specifications of the summaries. Every event of these batches belongs   *)
(* to call "A" unless said otherwise.                                      *)

NextSummarize ==
    \/ BuildRowsStep \/ BuildRowsReturn
    \/ SummarizeGroup \/ SummarizeCallBegin \/ SummarizeScan
    \/ SummarizeCallEnd \/ SummarizeReturn

NextRtp == RtpCollect \/ RtpCallBegin \/ RtpScan \/ RtpCallEnd \/ RtpReturn

Next == NextSummarize \/ NextRtp

CallA == [Blank EXCEPT !.callID = Str("A"), !.ts = Iso(1000000)]

\* SpecTermination: STOPPING rows with and without eventType / eventDetail.
TerminationMenu ==
    {MkEvent([CallA EXCEPT !.url_path = P_STOPPING, !.eventType = t, !.eventDetail = d]) :
        t \in {Absent, Str("NETWORK_LOST"), Str("USER_HANGUP")},
        d \in {Absent, Str("timeout")}}
    \cup {MkEvent([CallA EXCEPT !.url_path = P_ACTIVE]),
          MkEvent([CallA EXCEPT !.url_path = Str("/res/other"), !.eventType = Str("IGNORED")])}

InitTermination == InitWith({"transform", "main"}, {"summarize_calls"},
                            Batches(TerminationMenu, MaxEvents))

SpecTermination == InitTermination /\ [][NextSummarize]_vars

\* SpecStatus: rows of the four control-plane paths, with and without a
\* status code.
StatusMenu ==
    {MkEvent([CallA EXCEPT !.url_path = P_request, !.status_code = c]) :
        c \in {Absent, None, Num(200), Num(404)}}
    \cup {MkEvent([CallA EXCEPT !.url_path = P_accept, !.status_code = c]) :
        c \in {Absent, Num(200)}}
    \cup {MkEvent([CallA EXCEPT !.url_path = P_reject, !.status_code = Num(486)])}
    \cup {MkEvent([CallA EXCEPT !.url_path = P_end, !.status_code = c]) :
        c \in {None, Num(500)}}

InitStatus == InitWith({"transform", "main"}, {"summarize_calls"},
                       Batches(StatusMenu, MaxEvents))

SpecStatus == InitStatus /\ [][NextSummarize]_vars

\* SpecDuration: ACTIVE and STOPPING rows at 1.0 s and 6.2 s or without a
\* timestamp, and a row whose reason mentions RTP.
DurationMenu ==
    {MkEvent([CallA EXCEPT !.url_path = p, !.ts = t]) :
        p \in {P_ACTIVE, P_STOPPING},
        t \in {Absent, Iso(1000000), Iso(6200000)}}
    \cup {MkEvent([CallA EXCEPT !.url_path = Str("/res/recvMessage"), !.ts = Iso(6200000),
                            !.reason = Str("RTP Timeout")]),
          MkEvent([CallA EXCEPT !.url_path = P_STOPPING, !.ts = Iso(6200000),
                            !.eventType = Str("NETWORK_LOST")]),
          MkEvent([CallA EXCEPT !.url_path = P_ACTIVE, !.ts = Iso(1234567)])}

InitDuration ==
    InitWith({"transform", "main"}, {"summarize_calls", "analyze_rtp_timeouts"},
             Batches(DurationMenu, MaxEvents))

SpecDuration == InitDuration /\ [][Next]_vars

\* SpecBye: BYE rows with different reasons and paths, a row of another
\* method and a BYE row of call "B" (OAM-WAS/main.py).
ByeMenu ==
    {MkEvent([CallA EXCEPT !.method = Str("BYE"), !.reason = Str("RTP Timeout"),
                       !.url_path = Str("/res/longRes")]),
     MkEvent([CallA EXCEPT !.method = Str("BYE"), !.reason = Str("normal"),
                       !.url_path = Str("/res/restReq")]),
     MkEvent([CallA EXCEPT !.method = Str("BYE"), !.url_path = Str("/res/keepalive")]),
     MkEvent([CallA EXCEPT !.method = Str("BYE"), !.reason = Str("rtp lost"),
                       !.url_path = None]),
     MkEvent([CallA EXCEPT !.method = Str("BYE"), !.reason = Str("RTP Timeout")]),
     MkEvent([CallA EXCEPT !.method = Str("INVITE"), !.reason = Str("no rtp packets"),
                       !.url_path = Str("/res/SENDMESSAGE")]),
     MkEvent([CallA EXCEPT !.callID = Absent, !.callId = Str("B"), !.method = Str("BYE"),
                       !.reason = Str("RTP Timeout"),
                       !.url_path = Str("/res/recvMessage")])}

InitBye == InitWith({"main"}, {"summarize_calls", "analyze_rtp_timeouts"},
                    Batches(ByeMenu, MaxEvents))

SpecBye == InitBye /\ [][Next]_vars

\* SpecGrouping: rows of call "A", of call "B" (once through callID, once
\* through callId), rows without any candidate and a row whose only
\* candidate is the empty string, at different instants.
GroupingMenu ==
    {MkEvent([Blank EXCEPT !.callID = Str("A"), !.ts = Iso(3000000), !.url_path = P_ACTIVE]),
     MkEvent([Blank EXCEPT !.callID = Str("A"), !.ts = Iso(1000000), !.url_path = P_STOPPING,
                       !.reason = Str("RTP Timeout")]),
     MkEvent([Blank EXCEPT !.callId = Str("B"), !.ts = Iso(2000000), !.method = Str("BYE"),
                       !.reason = Str("rtp lost"), !.url_path = Str("/res/longRes")]),
     MkEvent([Blank EXCEPT !.callID = Str("B"), !.ts = Iso(4000000), !.url_path = P_ACTIVE]),
     MkEvent([Blank EXCEPT !.ts = Iso(5000000), !.url_path = P_STOPPING,
                       !.reason = Str("RTP Timeout")]),
     MkEvent([Blank EXCEPT !.ts = Iso(500000), !.url_path = P_ACTIVE]),
     MkEvent([Blank EXCEPT !.callId = Str(""), !.ts = Iso(6000000),
                       !.reason = Str("RTP Timeout")])}

InitGrouping ==
    InitWith({"transform", "main"}, {"summarize_calls", "analyze_rtp_timeouts"},
             Batches(GroupingMenu, MaxEvents))

SpecGrouping == InitGrouping /\ [][Next]_vars

\* SpecPackets: packet-flow rows with and without a totalCount, more of them
\* than a counter list may hold.
MaxPacketEvents == 5

PacketsMenu ==
    {MkEvent([CallA EXCEPT !.url_path = P_send, !.totalCount = c]) :
        c \in {None, Num(10), Num(20)}}
    \cup {MkEvent([CallA EXCEPT !.url_path = P_receive("transform"), !.totalCount = Num(30)]),
          MkEvent([CallA EXCEPT !.url_path = P_receive("main"), !.totalCount = Num(40)])}

InitPackets == InitWith({"transform", "main"}, {"summarize_calls"},
                        Batches(PacketsMenu, MaxPacketEvents))

SpecPackets == InitPackets /\ [][NextSummarize]_vars

\* SpecRtpEndpoint: the RTP analysis endpoint against a store of events of
\* calls "A" and "B", with and without a reason that mentions RTP.
MaxStore == 3
MaxLimit == 2
MaxPages == 2

StoreMenu ==
    {MkEvent([CallA EXCEPT !.method = Str("BYE"), !.reason = Str("RTP Timeout"),
                       !.url_path = Str("/res/longRes")]),
     MkEvent([CallA EXCEPT !.url_path = P_ACTIVE, !.ts = Iso(500000)]),
     MkEvent([Blank EXCEPT !.callId = Str("B"), !.ts = Iso(2000000),
                       !.reason = Str("no rtp packets")]),
     MkEvent([Blank EXCEPT !.ts = Iso(3000000), !.reason = Str("RTP Timeout")]),
     MkEvent([Blank EXCEPT !.callID = Str("C"), !.ts = Iso(4000000), !.method = Str("BYE"),
                       !.reason = Str("normal")]),
     MkEvent([Blank EXCEPT !.callID = Str("B\" OR \"C"), !.ts = Iso(5000000),
                       !.reason = Str("rtp lost")]),
     MkEvent([Blank EXCEPT !.callID = Num(7), !.ts = Iso(6000000),
                       !.reason = Str("RTP Timeout")])}

InitRtpEndpoint ==
    /\ module = "main"
    /\ fn = "collect_call_ids"
    /\ pc = "rum_search"
    /\ all_events = <<>>
    /\ idx = 1
    /\ processed_rows = <<>>
    /\ exc = ""
    /\ calls = <<>>
    /\ call_idx = 0
    /\ ev_idx = 0
    /\ frame = <<>>
    /\ summaries = <<>>
    /\ \E store \in Batches(StoreMenu, MaxStore) :
       \E limit \in 1..MaxLimit : \E pages \in 1..MaxPages :
          endpoint = [NoEndpoint EXCEPT !.store = store, !.limit_per_page = limit,
                                       !.max_pages = pages, !.phase = 1]
    /\ fetch = NoFetch
    /\ session = NoSession
    /\ slots = NoSlots

NextRtpEndpoint ==
    \/ SearchPage \/ CollectCallIds
    \/ BuildRowsStep \/ BuildRowsReturn
    \/ NextRtp

SpecRtpEndpoint == InitRtpEndpoint /\ [][NextRtpEndpoint]_vars

\* SpecRtpFields: analyze_rtp_timeouts on rows of call "A" whose tags and
\* resource paths vary.
RtpFieldsMenu ==
    {MkEvent([CallA EXCEPT !.method = Str("BYE"), !.reason = Str("RTP Timeout"),
                       !.url_path = Str("/res/SendMessage/LONGRES"),
                       !.tags = Str("uid:1,first_version:2.3.1,env:prod")]),
     MkEvent([CallA EXCEPT !.method = Str("BYE"), !.url_path = Str("/res/RecvMessage"),
                       !.tags = Str("first_version: 2.3.1 ,env:prod")]),
     MkEvent([CallA EXCEPT !.method = Str("BYE"), !.reason = Str("rtp lost"),
                       !.url_path = Str("/res/keepalive"),
                       !.tags = Str("first_version:,env:prod")]),
     MkEvent([CallA EXCEPT !.method = Str("INVITE"), !.reason = Str("no rtp packets"),
                       !.url_path = Str("/res/restReq"), !.tags = Str("env:prod")]),
     MkEvent([CallA EXCEPT !.method = Str("BYE"), !.reason = Str("RTP Timeout"),
                       !.url_path = Str("/res/RESTREQ?x=sendmessage"),
                       !.tags = List(<<Str("uid:1"), Str("first_version:2.3.1")>>)]),
     MkEvent([CallA EXCEPT !.reason = Str("RTP Timeout"), !.url_path = P_ACTIVE]),
     MkEvent([CallA EXCEPT !.method = Str("BYE"), !.reason = Str("RTP Timeout"),
                       !.tags = Str("first_version:1.0,first_version:2.0")])}

InitRtpFields == InitWith({"main"}, {"analyze_rtp_timeouts"},
                          Batches(RtpFieldsMenu, MaxEvents))

NextAnalyze == BuildRowsStep \/ BuildRowsReturn \/ NextRtp

SpecRtpFields == InitRtpFields /\ [][NextAnalyze]_vars

-----------------------------------------------------------------------------
(* SpecFlatten: flatten alone, on nested trees of mappings, sequences and  *)
(* scalars.                                                                *)

MaxWidth == 2
MaxListLen == 11

\* The list [1, ..., n]
ListOfLen(n) == List([i \in 1..n |-> Num(i)])

ListMenu == {ListOfLen(n) : n \in {0, 2, ListCap, MaxListLen}}

\* The dicts of at most MaxWidth entries with distinct keys from keys and
\* values from vals, in every insertion order.
DictsOver(keys, vals) ==
    {Dict(e) : e \in
        {x \in UNION {[1..n -> keys \X vals] : n \in 0..MaxWidth} :
            \A i, j \in 1..Len(x) : i # j => x[i][1] # x[j][1]}}

InnerTrees ==
    DictsOver({"a", "b"}, {Num(7), Dict(<< <<"b", ListOfLen(2)>> >>)})

TreeMenu ==
    {None, Num(7)} \cup ListMenu
    \cup DictsOver({"a", "a.b", ""}, {None, Num(7), ListOfLen(MaxListLen)} \cup InnerTrees)

InitFlatten ==
    /\ module \in {"transform", "main", "streamlit"}
    /\ fn = "flatten"
    /\ all_events \in {<<t>> : t \in TreeMenu}
    /\ pc = "flatten"
    /\ idx = 1
    /\ processed_rows = <<>>
    /\ exc = ""
    /\ calls = <<>>
    /\ call_idx = 0
    /\ ev_idx = 0
    /\ frame = <<>>
    /\ summaries = <<>>
    /\ endpoint = NoEndpoint
    /\ fetch = NoFetch
    /\ session = NoSession
    /\ slots = NoSlots

NextFlatten == FlattenCall

SpecFlatten == InitFlatten /\ [][NextFlatten]_vars

\* SpecFetch: the paginated fetch of the three files against a server that
\* answers each request with any response of ResponseMenu.
AnalysisIdle ==
    /\ all_events = <<>>
    /\ idx = 1
    /\ processed_rows = <<>>
    /\ exc = ""
    /\ calls = <<>>
    /\ call_idx = 0
    /\ ev_idx = 0
    /\ frame = <<>>
    /\ summaries = <<>>
    /\ endpoint = NoEndpoint

PageMenu ==
    {<<>>,
     <<MkEvent([CallA EXCEPT !.url_path = P_ACTIVE])>>,
     <<MkEvent([CallA EXCEPT !.ts = Iso(2000000), !.url_path = P_STOPPING])>>}

\* A response: status 200 with a page of events and a next cursor (absent,
\* empty, or one of two cursors); a status other than 200; a request that
\* fails in transport; status 200 with a body whose meta is null.
ResponseMenu ==
    {[kind |-> "ok", data |-> d, after |-> a] :
        d \in PageMenu, a \in {Absent, Str(""), Str("c1"), Str("c2")}}
    \cup {[kind |-> k, data |-> <<>>, after |-> Absent] : k \in {"status", "transport"}}
    \cup {[kind |-> "malformed", data |-> d, after |-> Absent] : d \in PageMenu \ {<<>>}}

InitFetchOf(modules) ==
    /\ module \in modules
    /\ fn = (IF module = "main" THEN "_rum_search"
             ELSE IF module = "app" THEN "run" ELSE "search_rum_events_usr_id")
    /\ pc = "fetch"
    /\ \E n \in 1..MaxPages : fetch = [NoFetch EXCEPT !.server = ResponseMenu, !.max_pages = n]
    /\ session = NoSession
    /\ slots = NoSlots
    /\ AnalysisIdle

InitFetch == InitFetchOf({"datadog_api", "streamlit", "main"})

NextFetch == FetchPage \/ FetchReturn

SpecFetch == InitFetch /\ [][NextFetch]_vars

\* Every request gets its response or fails within the timeout of
\* requests.post, so the loop goes on until it ends.
SpecFetchLive == SpecFetch /\ WF_vars(NextFetch)

\* SpecApp: a search run of app.py, from the fetch to the end of the
\* `if run:` block.
InitApp == InitFetchOf({"app"})

NextApp == FetchPage \/ FetchReturn \/ AppRun

SpecApp == InitApp /\ [][NextApp]_vars

\* SpecSlots: sanitize_pin_slots on slot values that repeat, carry blanks,
\* are null, are not visible or are the fixed pin.
MaxSlots == 3

MaxCount == 3

SlotMenu == {None, Str(""), Str("a"), Str(" a"), Str("b"), Str("z"), FIXED_PIN}

CandidateMenu ==
    {<<Str("a"), Str("b")>>, <<Str("b"), FIXED_PIN, Str("a")>>, <<Str("z")>>}

InitSlots ==
    /\ module = "helpers"
    /\ fn = "sanitize_pin_slots"
    /\ pc = "sanitize_pin_slots"
    /\ \E sv \in Batches(SlotMenu, MaxSlots) : \E vc \in CandidateMenu :
       \E n \in 0..MaxCount : \E fp \in {FIXED_PIN, Str("a")} :
          slots = [NoSlots EXCEPT !.slot_values = sv, !.visible_candidates = vc,
                                  !.count = n, !.fixed_pin = fp]
    /\ fetch = NoFetch
    /\ session = NoSession
    /\ AnalysisIdle

NextSlots == SanitizeCall

SpecSlots == InitSlots /\ [][NextSlots]_vars

-----------------------------------------------------------------------------
(* Claims about build_rows_dynamic (SpecRows) *)

\* The raw timestamp of an event, None when absent.
RawTimestamp(event) == RawGet(RawGet(event, "attributes"), "timestamp")

\* The candidate keys a row exposes before unification, in priority order.
Exposed(m, pre) ==
    SelectSeq(CandidateKeys(m), LAMBDA k : k \in DOMAIN pre)

\* Row k was built and exposed more than one candidate key.
MultiCandidate(k) ==
    /\ k \in 1..Len(processed_rows)
    /\ Len(Exposed(module, FlatRowOf(module, all_events[k])[2])) > 1

\* C1 as stated: for any row exposing more than one candidate key, the value
\* under "Call ID" is the highest-priority candidate whose value is non-null,
\* also when that value is "" or 0.
C1_HighestNonNullWins ==
    \A k \in 1..Len(processed_rows) :
        MultiCandidate(k) =>
            LET pre == FlatRowOf(module, all_events[k])[2]
                nonnull == SelectSeq(Exposed(module, pre), LAMBDA c : pre[c] # None)
            IN  nonnull # <<>> =>
                    /\ K_CallID \in DOMAIN processed_rows[k]
                    /\ processed_rows[k][K_CallID] = pre[nonnull[1]]

\* C1 amended: for any row exposing more than one candidate key, the value
\* under "Call ID" is the highest-priority candidate whose value is truthy
\* (not null, not "", not 0); when no candidate is truthy, "Call ID" is the
\* value of the last key of the chain if that key is present and non-null,
\* and is not written otherwise.
C1_HighestTruthyWins ==
    \A k \in 1..Len(processed_rows) :
        MultiCandidate(k) =>
            LET pre == FlatRowOf(module, all_events[k])[2]
                keys == CandidateKeys(module)
                truthy == SelectSeq(Exposed(module, pre), LAMBDA c : Truthy(pre[c]))
                last == keys[Len(keys)]
                post == processed_rows[k]
            IN  IF truthy # <<>>
                THEN K_CallID \in DOMAIN post /\ post[K_CallID] = pre[truthy[1]]
                ELSE IF last \in DOMAIN pre /\ pre[last] # None
                THEN K_CallID \in DOMAIN post /\ post[K_CallID] = pre[last]
                ELSE K_CallID \notin DOMAIN post

\* C1 witness: a row whose first candidate is the empty string and whose
\* second candidate is "B" was built, and "B" was written under "Call ID".
C1_Witness ==
    \E k \in 1..Len(processed_rows) :
        /\ MultiCandidate(k)
        /\ Get(FlatRowOf(module, all_events[k])[2], K_callID) = Str("")
        /\ Get(processed_rows[k], K_CallID) = Str("B")

\* C9 as stated: building flat rows never raises on a malformed or absent
\* timestamp, and an absent or empty timestamp gives the empty string.
C9_TimestampNeverRaises ==
    /\ pc # "raised"
    /\ \A k \in 1..Len(processed_rows) :
          RawTimestamp(all_events[k]) \in {None, Str("")} =>
              processed_rows[k][K_ts] = Str("")

\* A scalar or null: neither a mapping nor a sequence.
IsLeaf(v) == ~IsDict(v) /\ ~IsList(v)

\* C11 as stated: every value of every row returned by build_rows_dynamic is
\* a scalar or null, the "tags" and "usr.*" entries included.
C11_RowsAreFlat ==
    \A k \in 1..Len(processed_rows) :
        \A key \in DOMAIN processed_rows[k] : IsLeaf(processed_rows[k][key])

\* The candidate keys of the module, as a set.
CandidateSet(m) == {CandidateKeys(m)[i] : i \in 1..Len(CandidateKeys(m))}

\* The row of event k before the Call-ID unification.
PreRow(k) == FlatRowOf(module, all_events[k])[2]

\* C14 as stated: after unification a row with "Call ID" contains no
\* candidate key; a row in which no candidate holds a non-null value has no
\* "Call ID" and is unchanged; a row in which some candidate holds a
\* non-null value (also "" or 0) gets a "Call ID".
C14_CallIdIffNonNullCandidate ==
    \A k \in 1..Len(processed_rows) :
        LET pre == PreRow(k)
            post == processed_rows[k]
            cands == CandidateSet(module)
            nonnull == \E c \in cands : c \in DOMAIN pre /\ pre[c] # None
        IN  /\ K_CallID \in DOMAIN post => DOMAIN post \cap cands = {}
            /\ ~nonnull => K_CallID \notin DOMAIN post /\ post = pre
            /\ nonnull => K_CallID \in DOMAIN post

\* C14 amended: a row gets "Call ID" exactly when some candidate holds a
\* truthy value (not null, "" or 0) or the last candidate key of the chain
\* holds a non-null value; it then contains no candidate key and keeps its
\* other entries; every other row is left unchanged, candidate keys that
\* hold null, "" or 0 included.
C14_CallIdIffTruthyCandidate ==
    \A k \in 1..Len(processed_rows) :
        LET pre == PreRow(k)
            post == processed_rows[k]
            keys == CandidateKeys(module)
            cands == CandidateSet(module)
            last == keys[Len(keys)]
            gets == \/ \E c \in cands : c \in DOMAIN pre /\ Truthy(pre[c])
                    \/ last \in DOMAIN pre /\ pre[last] # None
        IN  IF gets
            THEN /\ DOMAIN post = ((DOMAIN pre) \ cands) \cup {K_CallID}
                 /\ \A x \in (DOMAIN post) \ {K_CallID} : post[x] = pre[x]
            ELSE post = pre

\* C14 witness: one row whose only candidate holds the empty string was
\* left without "Call ID" and kept the candidate key, and another row with
\* two candidates got a "Call ID" and lost both.
C14_Witness ==
    /\ \E k \in 1..Len(processed_rows) :
          /\ Get(PreRow(k), K_callID) = Str("")
          /\ K_CallID \notin DOMAIN processed_rows[k]
          /\ K_callID \in DOMAIN processed_rows[k]
    /\ \E k \in 1..Len(processed_rows) :
          /\ {K_callID, K_callId} \subseteq DOMAIN PreRow(k)
          /\ K_CallID \in DOMAIN processed_rows[k]
          /\ DOMAIN processed_rows[k] \cap CandidateSet(module) = {}

-----------------------------------------------------------------------------
(* Claims about flatten (SpecFlatten) *)

\* The terminal nodes of a tree (scalars outside any sequence, and sequence
\* nodes) as pairs <<mapping keys leading to the node, node>>, in
\* traversal order.
RECURSIVE Terminals(_, _)
RECURSIVE TerminalsOfItems(_, _)
TerminalsOfItems(keys, items) ==
    IF items = <<>> THEN <<>>
    ELSE Terminals(Append(keys, Head(items)[1]), Head(items)[2])
         \o TerminalsOfItems(keys, Tail(items))

Terminals(keys, node) ==
    IF IsDict(node) THEN TerminalsOfItems(keys, node[2]) ELSE << <<keys, node>> >>

RECURSIVE DropLeadingEmpty(_)
DropLeadingEmpty(keys) ==
    IF keys # <<>> /\ Head(keys) = "" THEN DropLeadingEmpty(Tail(keys)) ELSE keys

\* The dot-joined path of a sequence of mapping keys.
DotJoined(keys) == Join(".", keys)

\* The same with leading empty keys dropped.
DotPath(keys) == Join(".", DropLeadingEmpty(keys))

\* The number of scalar leaves of a sequence of terminal nodes: each
\* element of a sequence node is one.
RECURSIVE ScalarLeafCount(_)
ScalarLeafCount(terms) ==
    IF terms = <<>> THEN 0
    ELSE (IF IsList(Head(terms)[2]) THEN Len(Head(terms)[2][2]) ELSE 1)
         + ScalarLeafCount(Tail(terms))

FlattenDone == fn = "flatten" /\ pc = "done"

\* C12 as stated: after flatten("", T, out) on an empty out, out has
\* exactly one entry per scalar leaf of T, keyed by the dot-joined path of
\* the mapping keys leading to it, and no entry keyed by the path of a
\* container node (a sequence included).
C12_OneEntryPerScalarLeaf ==
    FlattenDone =>
        LET terms == Terminals(<<>>, all_events[1])
            out == processed_rows[1]
        IN  /\ Cardinality(DOMAIN out) = ScalarLeafCount(terms)
            /\ \A i \in 1..Len(terms) :
                  IF IsList(terms[i][2])
                  THEN DotJoined(terms[i][1]) \notin DOMAIN out
                  ELSE /\ DotJoined(terms[i][1]) \in DOMAIN out
                       /\ out[DotJoined(terms[i][1])] = terms[i][2]

\* C12 amended: after flatten("", T, out) on an empty out, the keys of out
\* are exactly the paths of the terminal nodes of T, a terminal node being
\* a scalar outside any sequence or a sequence node, and its path the
\* dot-joined mapping keys leading to it with leading empty keys dropped;
\* the entry of a path holds the last terminal node with that path in
\* traversal order, a scalar as it is and a sequence as one str. Mapping
\* nodes and the elements of sequences have no entry of their own.
C12_OneEntryPerTerminalPath ==
    FlattenDone =>
        LET terms == Terminals(<<>>, all_events[1])
            out == processed_rows[1]
            LastAt(i) == \A j \in (i + 1)..Len(terms) :
                             DotPath(terms[j][1]) # DotPath(terms[i][1])
        IN  /\ DOMAIN out = {DotPath(terms[i][1]) : i \in 1..Len(terms)}
            /\ \A i \in 1..Len(terms) :
                  LastAt(i) =>
                      IF IsList(terms[i][2])
                      THEN out[DotPath(terms[i][1])][1] = "str"
                      ELSE out[DotPath(terms[i][1])] = terms[i][2]

\* C12 witness: a tree with a scalar two mappings deep, a sequence, and two
\* terminal nodes sharing one path was flattened.
C12_Witness ==
    /\ FlattenDone
    /\ LET terms == Terminals(<<>>, all_events[1]) IN
       /\ \E i \in 1..Len(terms) : Len(terms[i][1]) >= 2 /\ ~IsList(terms[i][2])
       /\ \E i \in 1..Len(terms) : IsList(terms[i][2])
       /\ \E i, j \in 1..Len(terms) :
             i # j /\ DotPath(terms[i][1]) = DotPath(terms[j][1])
       /\ Cardinality(DOMAIN processed_rows[1]) < Len(terms)

\* C13 as stated: a sequence node becomes one str, its first ListCap
\* elements stringified and joined with ", ", followed by the ellipsis
\* marker exactly when the sequence has more than ListCap elements.
C13_SequenceTruncated ==
    FlattenDone =>
        LET terms == Terminals(<<>>, all_events[1])
            out == processed_rows[1]
        IN  \A i \in 1..Len(terms) :
                (/\ IsList(terms[i][2])
                 /\ \A j \in (i + 1)..Len(terms) :
                        DotPath(terms[j][1]) # DotPath(terms[i][1]))
                => LET items == terms[i][2][2]
                       n == IF Len(items) < ListCap THEN Len(items) ELSE ListCap
                       head == Join(", ", [k \in 1..n |-> PyStr(items[k])])
                   IN  out[DotPath(terms[i][1])] =
                          Str(IF Len(items) > ListCap THEN head \o Ellipsis ELSE head)

-----------------------------------------------------------------------------
(* Claims about summarize_calls and analyze_rtp_timeouts *)

\* The rows of the batch that carry the Call ID cid, in batch order.
RowsOfCall(cid) == SelectSeq(processed_rows, LAMBDA r : Get(r, K_CallID) = cid)

\* The rows among rows whose resource path is p, in order.
WithPath(rows, p) == SelectSeq(rows, LAMBDA r : Get(r, K_path) = p)

\* The rows among rows whose control method is "BYE", in order.
ByeRows(rows) == SelectSeq(rows, LAMBDA r : Get(r, K_method) = Str("BYE"))

\* The scan loop of summarize_calls is running; Scanned are the rows it has
\* been through.
InScan == pc = "summarize_loop" /\ call_idx <= Len(calls) /\ ev_idx >= 1
Scanned == SubSeq(events, 1, ev_idx - 1)

\* The batch is sorted newest first (every row has a timestamp).
NewestFirst(rows) ==
    /\ \A i \in 1..Len(rows) : rows[i][K_ts][1] = "kst"
    /\ \A i \in 1..(Len(rows) - 1) : rows[i][K_ts][2] >= rows[i + 1][K_ts][2]

SummaryDone == fn = "summarize_calls" /\ Len(summaries) > 0
RtpDone == fn = "analyze_rtp_timeouts" /\ Len(summaries) > 0

\* C2 as stated: a non-null termination reason was composed from the first
\* STOPPING row (the row that supplied stopping_ts) and reads eventType,
\* optionally followed by " (eventDetail)".
C2_ReasonFromFirstStoppingRow ==
    SummaryDone =>
        \A k \in 1..Len(summaries) :
            LET s == summaries[k]
                stops == WithPath(RowsOfCall(s.call_id), P_STOPPING)
                type == Get(stops[1], K_eventType)
                detail == Get(stops[1], K_eventDetail)
            IN  s.termination_reason # None =>
                    /\ stops # <<>>
                    /\ Truthy(type)
                    /\ s.termination_reason =
                          Str(PyStr(type) \o
                              (IF Truthy(detail) THEN " (" \o PyStr(detail) \o ")" ELSE ""))

\* C2 amended: the termination reason is composed from the first STOPPING
\* row in scan order that carries a non-empty eventType or eventDetail,
\* which may be a later row than the one that supplied stopping_ts; it reads
\* "eventType", "(eventDetail)" or "eventType (eventDetail)", and is null
\* exactly when no STOPPING row carries either field.
C2_ReasonFromFirstStoppingRowWithReason ==
    SummaryDone =>
        \A k \in 1..Len(summaries) :
            LET s == summaries[k]
                carry == SelectSeq(WithPath(RowsOfCall(s.call_id), P_STOPPING),
                            LAMBDA r : Truthy(Get(r, K_eventType))
                                       \/ Truthy(Get(r, K_eventDetail)))
                type == Get(carry[1], K_eventType)
                detail == Get(carry[1], K_eventDetail)
            IN  IF carry = <<>> THEN s.termination_reason = None
                ELSE s.termination_reason =
                        (IF Truthy(type) /\ Truthy(detail)
                         THEN Str(PyStr(type) \o " (" \o PyStr(detail) \o ")")
                         ELSE IF Truthy(type) THEN Str(PyStr(type))
                         ELSE Str("(" \o PyStr(detail) \o ")"))

\* C2 witness: a call whose first STOPPING row carries neither field was
\* summarised with a termination reason taken from a later STOPPING row.
C2_Witness ==
    /\ SummaryDone
    /\ \E k \in 1..Len(summaries) :
          LET stops == WithPath(RowsOfCall(summaries[k].call_id), P_STOPPING) IN
          /\ Len(stops) >= 2
          /\ ~Truthy(Get(stops[1], K_eventType))
          /\ ~Truthy(Get(stops[1], K_eventDetail))
          /\ summaries[k].termination_reason # None

\* C3 as stated: bye_reason is the reason field of the first BYE row of the
\* call in scan order; later BYE rows do not change it.
C3_FirstByeReasonKept ==
    SummaryDone /\ module = "main" =>
        \A k \in 1..Len(summaries) :
            LET byes == ByeRows(RowsOfCall(summaries[k].call_id)) IN
            byes # <<>> => summaries[k].bye_reason = Get(byes[1], K_reason)

\* C4 as stated: bye_delivery is the label of the path of the first BYE row
\* of the call in scan order; later BYE rows do not change it.
C4_FirstByeRowDecides ==
    RtpDone =>
        \A k \in 1..Len(summaries) :
            LET byes == ByeRows(RowsOfCall(summaries[k].call_id))
                path == GetD(byes[1], K_path, Str(""))
            IN  byes # <<>> /\ path[1] = "str" =>
                    summaries[k].bye_delivery = ByeChannel(Lower(path[2]))

\* C5 as stated: a call without an ACTIVE row has the duration NO_ACTIVE,
\* with or without a STOPPING row.
C5_NoActiveSentinel ==
    \A k \in 1..Len(summaries) :
        LET rows == RowsOfCall(summaries[k].call_id) IN
        WithPath(rows, P_ACTIVE) = <<>> => summaries[k].duration = NO_ACTIVE

\* C5 amended: a call without an ACTIVE row has the duration NO_ACTIVE in
\* summarize_calls and analyze_rtp_timeouts of OAM-WAS/main.py; in
\* summarize_calls of rum/transform.py it has NO_ACTIVE when the call has a
\* STOPPING row and NO_STOPPING when it has none either.
C5_NoActiveSentinelPerModule ==
    \A k \in 1..Len(summaries) :
        LET rows == RowsOfCall(summaries[k].call_id) IN
        WithPath(rows, P_ACTIVE) = <<>> =>
            summaries[k].duration =
                (IF module = "transform" /\ WithPath(rows, P_STOPPING) = <<>>
                 THEN NO_STOPPING ELSE NO_ACTIVE)

\* C5 witness: analyze_rtp_timeouts reported a call that has a STOPPING row
\* and no ACTIVE row.
C5_Witness ==
    /\ RtpDone
    /\ \E k \in 1..Len(summaries) :
          LET rows == RowsOfCall(summaries[k].call_id) IN
          /\ WithPath(rows, P_ACTIVE) = <<>>
          /\ WithPath(rows, P_STOPPING) # <<>>
          /\ summaries[k].duration = NO_ACTIVE

\* The timestamp of the first row among rows whose path is p, None without
\* such a row.
FirstTsOf(rows, p) ==
    IF WithPath(rows, p) = <<>> THEN None ELSE Get(WithPath(rows, p)[1], K_ts)

\* C6: throughout the scan of summarize_calls, active_ts is the timestamp of
\* the first ACTIVE row scanned so far and stopping_ts that of the first
\* STOPPING row (null before one is met), so a later matching row never
\* overwrites them; for a batch sorted newest first each is, at the end of
\* the scan, at least as recent as every matching row of the call.
C6_FirstOccurrenceWins ==
    InScan =>
        /\ frame.active_ts = FirstTsOf(Scanned, P_ACTIVE)
        /\ frame.stopping_ts = FirstTsOf(Scanned, P_STOPPING)
        /\ (ev_idx > Len(events) /\ NewestFirst(processed_rows)) =>
              \A i \in 1..Len(events) :
                  /\ Get(events[i], K_path) = P_ACTIVE =>
                        frame.active_ts[2] >= events[i][K_ts][2]
                  /\ Get(events[i], K_path) = P_STOPPING =>
                        frame.stopping_ts[2] >= events[i][K_ts][2]

\* C6 witness: the scan of a batch sorted newest first has been through two
\* ACTIVE rows with different timestamps and is complete.
C6_Witness ==
    /\ InScan
    /\ ev_idx > Len(events)
    /\ NewestFirst(processed_rows)
    /\ LET act == WithPath(events, P_ACTIVE) IN
       Len(act) >= 2 /\ act[1][K_ts] # act[2][K_ts] /\ frame.active_ts = act[1][K_ts]

\* The status code the summary s holds for path p.
StatusIn(s, p) ==
    CASE p = P_request -> s.request_status
      [] p = P_accept -> s.accept_status
      [] p = P_reject -> s.reject_status
      [] p = P_end -> s.end_status

StatusPaths == {P_request, P_accept, P_reject, P_end}

\* C7 as stated: each of the four status codes is the status-code field of
\* the first row of the call whose path matches, also when that field is
\* null and a later matching row has one.
C7_StatusOfFirstMatchingRow ==
    SummaryDone =>
        \A k \in 1..Len(summaries) : \A p \in StatusPaths :
            LET m == WithPath(RowsOfCall(summaries[k].call_id), p) IN
            StatusIn(summaries[k], p) = (IF m = <<>> THEN None ELSE Get(m[1], K_status))

\* C7 amended: each of the four status codes is the status-code field of
\* the first row of the call whose path matches and whose status code is
\* non-null (null when there is no such row); the four are captured
\* independently of each other.
C7_StatusOfFirstMatchingRowWithCode ==
    SummaryDone =>
        \A k \in 1..Len(summaries) : \A p \in StatusPaths :
            LET m == SelectSeq(WithPath(RowsOfCall(summaries[k].call_id), p),
                               LAMBDA r : Get(r, K_status) # None)
            IN  StatusIn(summaries[k], p) = (IF m = <<>> THEN None ELSE m[1][K_status])

\* C7 witness: a call whose first requestVoiceCall row has no status code
\* and whose later one has, summarised together with an endCall row.
C7_Witness ==
    /\ SummaryDone
    /\ \E k \in 1..Len(summaries) :
          LET rows == RowsOfCall(summaries[k].call_id)
              m == WithPath(rows, P_request)
          IN  /\ Len(m) >= 2
              /\ Get(m[1], K_status) = None
              /\ Get(m[2], K_status) # None
              /\ summaries[k].request_status = Get(m[2], K_status)
              /\ WithPath(rows, P_end) # <<>>

\* C8 as stated: a call with an ACTIVE row and a STOPPING row of which one
\* display timestamp does not parse (the empty string) has the duration
\* PARSE_ERROR, and nothing is raised.
C8_ParseErrorSentinel ==
    /\ pc # "raised"
    /\ \A k \in 1..Len(summaries) :
          LET rows == RowsOfCall(summaries[k].call_id)
              a == FirstTsOf(rows, P_ACTIVE)
              b == FirstTsOf(rows, P_STOPPING)
          IN  (a # None /\ b # None /\ (a[1] # "kst" \/ b[1] # "kst")) =>
                  summaries[k].duration = PARSE_ERROR

\* C10 as stated: a row in which an optional field is missing or null (a
\* BYE row whose url_path is null; no tags, reason or status code) never
\* makes summarize_calls or analyze_rtp_timeouts raise.
C10_MissingFieldNeverRaises ==
    ~(pc = "raised" /\ idx > Len(all_events))

-----------------------------------------------------------------------------
(* Claims about the grouping by Call ID (SpecGrouping) *)

\* build_rows_dynamic has returned.
RowsBuilt == pc \notin {"build_rows", "raised", "flatten"}

\* C15: build_rows_dynamic returns one row per input event, in input order
\* (row k carries the timestamp of event k), rows without a Call ID
\* included; no row without a resolved Call ID is ever put into a call's
\* list by summarize_calls or analyze_rtp_timeouts, and every output record
\* belongs to a resolved Call ID carried by some row.
C15_UnresolvedRowsKeptButUnused ==
    /\ RowsBuilt =>
          /\ Len(processed_rows) = Len(all_events)
          /\ \A k \in 1..Len(all_events) :
                processed_rows[k][K_ts] = KstOfIso(RawTimestamp(all_events[k])[2])
    /\ \A i \in 1..Len(calls) : \A j \in 1..Len(calls[i][2]) :
          /\ K_CallID \in DOMAIN calls[i][2][j]
          /\ Truthy(calls[i][2][j][K_CallID])
    /\ \A k \in 1..Len(summaries) :
          /\ Truthy(summaries[k].call_id)
          /\ RowsOfCall(summaries[k].call_id) # <<>>
          /\ summaries[k].end_time \in
                {RowsOfCall(summaries[k].call_id)[j][K_ts] :
                    j \in 1..Len(RowsOfCall(summaries[k].call_id))}

\* C15 witness: a batch whose newest row has no Call ID and mentions RTP
\* was turned into three rows, and a record was produced for another row.
C15_Witness ==
    /\ Len(processed_rows) = MaxEvents
    /\ K_CallID \notin DOMAIN processed_rows[1]
    /\ IsRtpReason(GetD(processed_rows[1], K_reason, Str("")))
    /\ Len(summaries) > 0

\* The Call ID values that occur in the input rows of summarize_calls.
CallIdValues ==
    {processed_rows[k][K_CallID] :
        k \in {j \in 1..Len(processed_rows) : K_CallID \in DOMAIN processed_rows[j]}}

\* summarize_calls has returned.
SummarizeReturned == fn = "summarize_calls" /\ pc = "done"

\* C16 as stated: summarize_calls emits exactly one summary per distinct
\* Call ID value occurring in its input rows (the empty string included),
\* each built from the rows carrying that Call ID, in batch order.
C16_OneSummaryPerCallIdValue ==
    /\ (fn = "summarize_calls" /\ pc = "summarize_loop") =>
          \A i \in 1..Len(calls) : calls[i][2] = RowsOfCall(calls[i][1])
    /\ SummarizeReturned =>
          /\ {summaries[k].call_id : k \in 1..Len(summaries)} = CallIdValues
          /\ Len(summaries) = Cardinality(CallIdValues)

\* C16 amended: summarize_calls emits exactly one summary per distinct
\* truthy (non-empty) Call ID value occurring in its input rows, and none
\* for the rows whose Call ID is the empty string; each summary is built
\* from the rows carrying that Call ID, in their batch order.
C16_OneSummaryPerTruthyCallId ==
    /\ (fn = "summarize_calls" /\ pc = "summarize_loop") =>
          \A i \in 1..Len(calls) : calls[i][2] = RowsOfCall(calls[i][1])
    /\ SummarizeReturned =>
          /\ {summaries[k].call_id : k \in 1..Len(summaries)}
                = {v \in CallIdValues : Truthy(v)}
          /\ Len(summaries) = Cardinality({v \in CallIdValues : Truthy(v)})

\* C16 witness: summarize_calls returned one summary for a batch in which
\* the two rows of one call surround a row whose Call ID is the empty
\* string.
C16_Witness ==
    /\ SummarizeReturned
    /\ Len(summaries) = 1
    /\ Len(processed_rows) = 3
    /\ Get(processed_rows[2], K_CallID) = Str("")
    /\ Get(processed_rows[1], K_CallID) = summaries[1].call_id
    /\ Get(processed_rows[3], K_CallID) = summaries[1].call_id
    /\ processed_rows[1] # processed_rows[3]

\* C17: the start time of every summary and of every RTP record is the
\* timestamp of the last row of the call and its end time that of the first
\* row; for a batch sorted newest first the start time is the call's oldest
\* timestamp, the end time its newest, and start time <= end time.
C17_StartFromLastRowEndFromFirst ==
    \A k \in 1..Len(summaries) :
        LET s == summaries[k]
            rows == RowsOfCall(s.call_id)
        IN  /\ s.start_time = rows[Len(rows)][K_ts]
            /\ s.end_time = rows[1][K_ts]
            /\ NewestFirst(processed_rows) =>
                  /\ \A j \in 1..Len(rows) :
                        /\ s.start_time[2] <= rows[j][K_ts][2]
                        /\ s.end_time[2] >= rows[j][K_ts][2]
                  /\ s.start_time[2] <= s.end_time[2]

\* C17 witness: a record of a call with rows at different instants, in a
\* batch sorted newest first, whose start time is earlier than its end time.
C17_Witness ==
    /\ NewestFirst(processed_rows)
    /\ \E k \in 1..Len(summaries) :
          /\ Len(RowsOfCall(summaries[k].call_id)) >= 2
          /\ summaries[k].start_time[2] < summaries[k].end_time[2]

-----------------------------------------------------------------------------
(* Claims about the packet counters (SpecPackets) *)

\* The non-null totalCount values of the rows among rows whose path is p,
\* in order.
CountsOf(rows, p) ==
    LET hits == SelectSeq(WithPath(rows, p), LAMBDA r : Get(r, K_totalCount) # None)
    IN  [i \in 1..Len(hits) |-> hits[i][K_totalCount]]

\* The first n elements of seq, all of them when it is shorter.
FirstUpTo(seq, n) == [i \in 1..(IF Len(seq) < n THEN Len(seq) ELSE n) |-> seq[i]]

\* C18: throughout the scan of summarize_calls neither packet counter list
\* holds more than PacketCap entries; each holds the first (up to PacketCap)
\* non-null totalCount values of the rows scanned so far that have its
\* packet-flow path, in scan order, and so does the summary at the end.
C18_PacketCountersCapped ==
    /\ InScan =>
          /\ Len(frame.send_packets) <= PacketCap
          /\ Len(frame.receive_packets) <= PacketCap
          /\ frame.send_packets = FirstUpTo(CountsOf(Scanned, P_send), PacketCap)
          /\ frame.receive_packets =
                FirstUpTo(CountsOf(Scanned, P_receive(module)), PacketCap)
    /\ SummaryDone =>
          \A k \in 1..Len(summaries) :
              LET rows == RowsOfCall(summaries[k].call_id) IN
              /\ summaries[k].send_packets = FirstUpTo(CountsOf(rows, P_send), PacketCap)
              /\ summaries[k].receive_packets =
                    FirstUpTo(CountsOf(rows, P_receive(module)), PacketCap)

\* C18 witness: a call with a null-count row followed by four send rows with
\* a count was summarised with the first three counts.
C18_Witness ==
    /\ SummaryDone
    /\ Get(processed_rows[1], K_path) = P_send
    /\ Get(processed_rows[1], K_totalCount) = None
    /\ Len(CountsOf(processed_rows, P_send)) = PacketCap + 1
    /\ Len(summaries[1].send_packets) = PacketCap
    /\ summaries[1].send_packets[1] # summaries[1].send_packets[2]

-----------------------------------------------------------------------------
(* Claims about the duration (SpecDuration) *)

\* The text <<"dur", d>> shows ms milliseconds in seconds with one decimal
\* place: d tenths of a second is the nearest tenth to ms.
ShowsSeconds(text, ms) ==
    /\ text[1] = "dur"
    /\ 100 * text[2] - 50 <= ms
    /\ ms <= 100 * text[2] + 50

\* C19: when a call has an ACTIVE row and a STOPPING row with parsable
\* timestamps, its duration is stopping_ts minus active_ts (those of the
\* first such rows) in seconds with one decimal place; an ACTIVE row at T0
\* and a STOPPING row at T0 + 5.2 s carrying eventType NETWORK_LOST give
\* the duration 5.2 and the termination reason NETWORK_LOST.
C19_DurationInSeconds ==
    \A k \in 1..Len(summaries) :
        LET s == summaries[k]
            rows == RowsOfCall(s.call_id)
            a == FirstTsOf(rows, P_ACTIVE)
            b == FirstTsOf(rows, P_STOPPING)
            stops == WithPath(rows, P_STOPPING)
        IN  (a[1] = "kst" /\ b[1] = "kst") =>
                /\ ShowsSeconds(s.duration, b[2] - a[2])
                /\ (/\ fn = "summarize_calls"
                    /\ b[2] - a[2] = 5200
                    /\ Len(WithPath(rows, P_ACTIVE)) = 1
                    /\ Len(stops) = 1
                    /\ Get(stops[1], K_eventType) = Str("NETWORK_LOST")
                    /\ Get(stops[1], K_eventDetail) = None)
                   => s.duration = <<"dur", 52>> /\ s.termination_reason = Str("NETWORK_LOST")

\* C19 witness: a call with one ACTIVE row and, 5.2 s later, one STOPPING
\* row carrying NETWORK_LOST was summarised with the duration 5.2.
C19_Witness ==
    /\ SummaryDone
    /\ \E k \in 1..Len(summaries) :
          LET rows == RowsOfCall(summaries[k].call_id)
              stops == WithPath(rows, P_STOPPING)
          IN  /\ Len(WithPath(rows, P_ACTIVE)) = 1
              /\ Len(stops) = 1
              /\ Get(stops[1], K_eventType) = Str("NETWORK_LOST")
              /\ WithPath(rows, P_ACTIVE)[1][K_ts][1] = "kst"
              /\ stops[1][K_ts][2] - WithPath(rows, P_ACTIVE)[1][K_ts][2] = 5200
              /\ summaries[k].duration = <<"dur", 52>>
              /\ summaries[k].termination_reason = Str("NETWORK_LOST")

-----------------------------------------------------------------------------
(* Claims about the RTP analysis endpoint (SpecRtpEndpoint) *)

\* The events of the store whose reason mentions RTP, newest first, and the
\* number of pages phase 1 fetches of them: all of them, at least one, at
\* most max_pages.
RtpEvents == SelectSeq(endpoint.store, MatchesRtpQuery)

PagesOf(n, limit) == IF n = 0 THEN 1 ELSE (n + limit - 1) \div limit

PhaseOnePages ==
    IF PagesOf(Len(RtpEvents), endpoint.limit_per_page) < endpoint.max_pages
    THEN PagesOf(Len(RtpEvents), endpoint.limit_per_page)
    ELSE endpoint.max_pages

\* The RTP events on the pages phase 1 fetches.
PhaseOneEvents ==
    SubSeq(RtpEvents, 1,
           IF Len(RtpEvents) < PhaseOnePages * endpoint.limit_per_page
           THEN Len(RtpEvents) ELSE PhaseOnePages * endpoint.limit_per_page)

\* The distinct Call IDs of those events.
PhaseOneCallIds ==
    {c \in {PyOr(ContextOf(PhaseOneEvents[i], "callID"), ContextOf(PhaseOneEvents[i], "callId")) :
               i \in 1..Len(PhaseOneEvents)} : Truthy(c)}

\* The posts of the given phase, in the order they were issued.
PostsOf(phase) == SelectSeq(endpoint.posts, LAMBDA q : q[1] = phase)

\* C20: in the RTP analysis endpoint no phase-2 fetch is issued before all
\* the pages of phase 1 (every page of the RTP-reason result, up to
\* max_pages) have been fetched, in order; phase 2 searches for exactly the
\* distinct Call IDs of the phase-1 events; and when that set is empty the
\* endpoint returns an empty result without any phase-2 fetch.
C20_PhaseTwoAfterPhaseOne ==
    endpoint.phase > 0 =>
        /\ \A i, j \in 1..Len(endpoint.posts) :
              i < j => endpoint.posts[i][1] <= endpoint.posts[j][1]
        /\ PostsOf(2) # <<>> =>
              /\ PostsOf(1) = [p \in 1..PhaseOnePages |-> <<1, p>>]
              /\ PhaseOneCallIds # {}
              /\ endpoint.call_ids = PhaseOneCallIds
        /\ (pc = "done" /\ PhaseOneCallIds = {}) =>
              /\ summaries = <<>>
              /\ PostsOf(2) = <<>>
              /\ PostsOf(1) = [p \in 1..PhaseOnePages |-> <<1, p>>]
        /\ (pc = "done" /\ PhaseOneCallIds # {}) => PostsOf(2) # <<>>

\* C20 witness: phase 1 fetched two pages that name two calls, and a
\* phase-2 page has been fetched after them.
C20_Witness ==
    /\ endpoint.phase = 2
    /\ Len(PostsOf(1)) = 2
    /\ PostsOf(2) # <<>>
    /\ Cardinality(endpoint.call_ids) = 2

\* C20 witness of the empty case: phase 1 found RTP events, none of them
\* with a Call ID, and the endpoint returned.
C20_WitnessEmpty ==
    /\ endpoint.phase = 1
    /\ pc = "done"
    /\ RtpEvents # <<>>
    /\ PhaseOneCallIds = {}

\* The number of places at which kw occurs in s.
CountOcc(s, kw) ==
    Cardinality({i \in 1..(Len(s) - Len(kw) + 1) : SubSeq(s, i, i + Len(kw) - 1) = kw})

\* The Call IDs the events of the store carry.
StoreIds ==
    {ContextOf(endpoint.store[i], k) :
        i \in 1..Len(endpoint.store), k \in {"callID", "callId"}} \ {None}

\* C21 as stated: the phase-2 query names both identifier fields once,
\* contains every Call ID collected in phase 1 exactly once per field (as
\* a quoted term), and contains no Call ID that was not collected.
C21_QueryNamesExactlyCollected ==
    endpoint.phase = 2 =>
        /\ CountOcc(endpoint.full_query, "@context.callID:(") = 1
        /\ CountOcc(endpoint.full_query, "@context.callId:(") = 1
        /\ \A id \in endpoint.call_ids :
              CountOcc(endpoint.full_query, Quoted(id)) = 2
        /\ \A id \in StoreIds \ endpoint.call_ids :
              ~Contains(endpoint.full_query, Quoted(id))

-----------------------------------------------------------------------------
(* Claims about the fields of the RTP records (SpecRtpFields) *)

\* The places of text t at which the token first_version: starts.
TokenAt(t) ==
    {i \in 1..(Len(t) - Len(VersionToken) + 1) :
        SubSeq(t, i, i + Len(VersionToken) - 1) = VersionToken}

\* The text of t from place i up to the next comma or the end.
RECURSIVE ValueFrom(_, _)
ValueFrom(t, i) ==
    IF i > Len(t) \/ SubSeq(t, i, i) = "," THEN ""
    ELSE SubSeq(t, i, i) \o ValueFrom(t, i + 1)

\* text without the blanks around it
RECURSIVE Trimmed(_)
Trimmed(text) ==
    IF text # "" /\ SubSeq(text, 1, 1) = " " THEN Trimmed(SubSeq(text, 2, Len(text)))
    ELSE IF text # "" /\ SubSeq(text, Len(text), Len(text)) = " "
    THEN Trimmed(SubSeq(text, 1, Len(text) - 1))
    ELSE text

Least(set) == CHOOSE x \in set : \A y \in set : x <= y

\* The tags of the first row of a call, "" when the row has none.
FirstRowTags(cid) == GetD(RowsOfCall(cid)[1], K_tags, Str(""))

\* C22 as stated: app_version is the text that follows the first token
\* first_version: in the tags string of the call's first row, up to the next
\* comma or the end of the string, exactly as it stands there, and "N/A"
\* when the string has no such token.
C22_VersionAfterToken ==
    RtpDone =>
        \A k \in 1..Len(summaries) :
            LET tags == FirstRowTags(summaries[k].call_id) IN
            tags[1] = "str" =>
                summaries[k].app_version =
                    (IF TokenAt(tags[2]) = {} THEN NA
                     ELSE Str(ValueFrom(tags[2], Least(TokenAt(tags[2])) + Len(VersionToken))))

\* C22 amended: when the tags of the call's first row are a str, app_version
\* is the text that follows the first token first_version: that has at
\* least one character other than a comma after it, up to the next comma or
\* the end, with the surrounding blanks removed, and "N/A" when there is no
\* such token; it is "N/A" as well when the tags are absent or are not a
\* str (a list).
C22_VersionAfterTokenStripped ==
    RtpDone =>
        \A k \in 1..Len(summaries) :
            LET tags == FirstRowTags(summaries[k].call_id)
                valued == {i \in TokenAt(tags[2]) :
                              ValueFrom(tags[2], i + Len(VersionToken)) # ""}
            IN  summaries[k].app_version =
                    (IF tags[1] # "str" THEN NA
                     ELSE IF valued = {} THEN NA
                     ELSE Str(Trimmed(ValueFrom(tags[2], Least(valued) + Len(VersionToken)))))

\* C22 witness: a record whose first row has the tags
\* "uid:1,first_version:2.3.1,env:prod" and whose app_version is "2.3.1",
\* built from a batch in which a later row has other tags.
C22_Witness ==
    /\ RtpDone
    /\ FirstRowTags(summaries[1].call_id) = Str("uid:1,first_version:2.3.1,env:prod")
    /\ summaries[1].app_version = Str("2.3.1")
    /\ \E j \in 2..Len(processed_rows) :
          GetD(processed_rows[j], K_tags, Str("")) = Str("first_version: 2.3.1 ,env:prod")

\* The keywords of the BYE delivery, in the order they are tried.
ByeKeywords == <<"longRes", "restReq", "sendMessage", "recvMessage">>

\* C23: bye_delivery is "N/A" exactly when the call has no BYE row; otherwise
\* it is the first keyword in the order longRes, restReq, sendMessage,
\* recvMessage that occurs, letter case ignored, in the path of the deciding
\* BYE row (the last BYE row of the call; no path counts as an empty one),
\* and "Unknown" when none of them occurs.
C23_ByeDeliveryClassified ==
    RtpDone =>
        \A k \in 1..Len(summaries) :
            LET byes == ByeRows(RowsOfCall(summaries[k].call_id))
                path == Lower(GetD(byes[Len(byes)], K_path, Str(""))[2])
                hits == SelectSeq(ByeKeywords, LAMBDA w : Contains(path, Lower(w)))
            IN  /\ (summaries[k].bye_delivery = NA) <=> (byes = <<>>)
                /\ byes # <<>> =>
                      summaries[k].bye_delivery =
                          (IF hits = <<>> THEN Str("Unknown") ELSE Str(hits[1]))

\* C23 witness: a record whose deciding BYE row has a path that contains
\* two keywords in capitals, labelled with the one that is tried first.
C23_Witness ==
    /\ RtpDone
    /\ LET byes == ByeRows(RowsOfCall(summaries[1].call_id)) IN
       /\ byes # <<>>
       /\ Get(byes[Len(byes)], K_path) = Str("/res/SendMessage/LONGRES")
       /\ summaries[1].bye_delivery = Str("longRes")

\* C23 witness of "N/A": a record of a call without a BYE row.
C23_WitnessNoBye ==
    /\ RtpDone
    /\ ByeRows(RowsOfCall(summaries[1].call_id)) = <<>>
    /\ summaries[1].bye_delivery = NA

-----------------------------------------------------------------------------
(* Claims about the order of the returned records (SpecGrouping) *)

\* The display strings have one fixed width, so they compare as their
\* instants do; the empty string is below every display string.
StartGeq(a, b) ==
    \/ b.start_time = Str("")
    \/ a.start_time[1] = "kst" /\ b.start_time[1] = "kst"
          /\ a.start_time[2] >= b.start_time[2]

\* The place of the first row of call cid in the batch.
FirstPlace(cid) ==
    Least({i \in 1..Len(processed_rows) : Get(processed_rows[i], K_CallID) = cid})

SortedReturn ==
    /\ pc = "done"
    /\ fn = "analyze_rtp_timeouts" \/ (fn = "summarize_calls" /\ module = "transform")

\* C24: the records returned by analyze_rtp_timeouts, and the summaries
\* returned by summarize_calls of rum/transform.py, are in descending order
\* of their start-time display string: of every two adjacent records the
\* earlier one's start time is greater than or equal to the later one's.
C24_ReturnedNewestStartFirst ==
    SortedReturn =>
        \A i \in 1..(Len(summaries) - 1) : StartGeq(summaries[i], summaries[i + 1])

\* C24 witness: analyze_rtp_timeouts returned two records with different
\* start times, the first of them for the call that came later in the batch.
C24_Witness ==
    /\ SortedReturn
    /\ fn = "analyze_rtp_timeouts"
    /\ Len(summaries) = 2
    /\ summaries[1].start_time # summaries[2].start_time
    /\ FirstPlace(summaries[1].call_id) > FirstPlace(summaries[2].call_id)

\* C24 witness for summarize_calls of rum/transform.py.
C24_WitnessSummarize ==
    /\ SortedReturn
    /\ fn = "summarize_calls"
    /\ Len(summaries) = 2
    /\ summaries[1].start_time # summaries[2].start_time
    /\ FirstPlace(summaries[1].call_id) > FirstPlace(summaries[2].call_id)

-----------------------------------------------------------------------------
(* Claim about the sign of the duration (SpecDuration) *)

\* C30 as stated: when the batch is sorted newest-first, a numeric duration
\* in a record of summarize_calls or analyze_rtp_timeouts is never negative,
\* however the ACTIVE and STOPPING rows of the call are interleaved.
C30_DurationNeverNegative ==
    NewestFirst(processed_rows) =>
        \A k \in 1..Len(summaries) :
            summaries[k].duration[1] = "dur" => summaries[k].duration[2] >= 0

-----------------------------------------------------------------------------
(* Claims about the paginated fetch (SpecFetch, SpecFetchLive) *)

FetchEnded == pc \in {"done", "raised"}

\* The requests sent so far follow the responses received so far: no more
\* than max_pages requests; the first one without a cursor; every later one
\* sent after a status-200 response that carried a cursor, and with that
\* cursor, so that nothing is requested after a failure or after a response
\* without a cursor; and a cursor is requested again only when the server
\* handed it out again.
FetchFollowsCursors ==
    LET rq == fetch.requests
        rs == fetch.responses
    IN  /\ Len(rq) <= fetch.max_pages
        /\ Len(rs) = Len(rq)
        /\ Len(rq) >= 1 => rq[1] = Absent
        /\ \A i \in 2..Len(rq) :
              /\ rs[i - 1].kind = "ok"
              /\ Truthy(rs[i - 1].after)
              /\ rq[i] = rs[i - 1].after
        /\ \A i, j \in 1..Len(rq) :
              (i < j /\ rq[i] = rq[j]) => (i > 1 /\ rs[i - 1].after = rs[j - 1].after)
        /\ (pc = "fetch" /\ Len(rs) >= 1) => Truthy(rs[Len(rs)].after)

\* C25: the paginated fetch sends at most max_pages requests, repeats no
\* request after a failure, sends with every request after the first the
\* cursor of the previous response, sends nothing after the first response
\* without a next cursor, and ends whatever the server answers.
C25_FetchBoundedAndEnds == [](FetchFollowsCursors) /\ <>(FetchEnded)

\* C25 witness: a fetch with max_pages = 2 that ended after two requests,
\* the second one carrying the cursor of the first response, although the
\* second response carried a cursor as well.
C25_Witness ==
    /\ pc = "done"
    /\ fetch.max_pages = 2
    /\ Len(fetch.requests) = 2
    /\ fetch.requests[2] = Str("c1")
    /\ fetch.responses[1].after = Str("c1")
    /\ fetch.responses[2].kind = "ok"
    /\ fetch.responses[2].after = Str("c2")

\* C25 witness of the early stop: max_pages = 2 and one request, answered
\* without a next cursor.
C25_WitnessNoCursor ==
    /\ pc = "done"
    /\ fetch.max_pages = 2
    /\ Len(fetch.requests) = 1
    /\ fetch.responses[1].kind = "ok"
    /\ ~Truthy(fetch.responses[1].after)

\* pages[1].data followed by ... followed by pages[n].data
RECURSIVE PagesJoined(_)
PagesJoined(pages) ==
    IF pages = <<>> THEN <<>> ELSE Head(pages).data \o PagesJoined(Tail(pages))

\* C26: when search_rum_events_usr_id has returned, then if a page came
\* with a status other than 200 that page was the last one requested and
\* the result is two empty lists, whatever the earlier pages brought; and
\* if every page came with status 200 the returned events are the events of
\* the pages joined in the order they were fetched.
C26_FailedPageReturnsNothing ==
    (fetch.returned /\ module \in {"datadog_api", "streamlit"}) =>
        LET rs == fetch.responses IN
        IF \E i \in 1..Len(rs) : rs[i].kind = "status"
        THEN /\ \A i \in 1..Len(rs) : rs[i].kind = "status" => i = Len(rs)
             /\ fetch.result = << <<>>, <<>> >>
        ELSE /\ fetch.result[2] = PagesJoined(rs)
             /\ Len(fetch.result[1]) = Len(fetch.result[2])

\* C26 witness: the first page brought an event and a cursor, the second
\* page came with a status other than 200, and two empty lists were
\* returned.
C26_Witness ==
    /\ fetch.returned
    /\ module = "datadog_api"
    /\ Len(fetch.responses) = 2
    /\ fetch.responses[1].data # <<>>
    /\ fetch.responses[2].kind = "status"
    /\ fetch.result = << <<>>, <<>> >>

\* C26 witness of the success case: two pages with different events,
\* returned in fetch order.
C26_WitnessJoined ==
    /\ fetch.returned
    /\ module = "streamlit"
    /\ Len(fetch.responses) = 2
    /\ fetch.responses[1].data # <<>>
    /\ fetch.responses[2].data # <<>>
    /\ fetch.responses[1].data # fetch.responses[2].data
    /\ fetch.result[2] = fetch.responses[1].data \o fetch.responses[2].data

-----------------------------------------------------------------------------
(* Claims about the search run of app.py (SpecApp) *)

\* The search has returned and the `if run:` block is over.
RunOver == module = "app" /\ fetch.returned /\ pc # "run"

\* C27 as stated: when the search returned no events, the run ends with
\* df_base, df_view and df_summary all None and without an attempt to
\* flatten (nothing is raised); when it returned events, the run ends with
\* the three frames loaded.
C27_EmptySearchResetsSession ==
    RunOver =>
        IF fetch.result[2] = <<>>
        THEN /\ pc = "rendered"
             /\ exc = ""
             /\ session.df_base = None
             /\ session.df_view = None
             /\ session.df_summary = None
        ELSE /\ pc = "rendered"
             /\ session.df_base # None
             /\ session.df_view # None
             /\ session.df_summary # None

\* What the run does instead: whatever the search returned, the run ends in
\* the AttributeError of build_rows_dynamic and the session is as it was
\* before the run, with no frame loaded.
AppRunAlwaysRaises ==
    RunOver => (pc = "raised" /\ exc = "AttributeError" /\ session = NoSession)

\* A run whose search brought an event has ended.
AppRunWithEvents == RunOver /\ fetch.result[2] # <<>>

\* A run whose search brought no event has ended.
AppRunWithoutEvents == RunOver /\ fetch.result[2] = <<>>

-----------------------------------------------------------------------------
(* Claims about sanitize_pin_slots (SpecSlots) *)

SanitizeDone == fn = "sanitize_pin_slots" /\ pc = "done"

\* The slot value v as the loop reads it: null counts as empty and the
\* blanks around it are dropped.
AsRead(v) == IF v = None THEN Str("") ELSE Str(Trimmed(v[2]))

\* The place of the first slot value that reads as c.
FirstRead(c) ==
    Least({k \in 1..Len(slots.slot_values) : AsRead(slots.slot_values[k]) = c})

\* C28: sanitize_pin_slots returns exactly count entries (count >= 0); the
\* non-empty ones are pairwise distinct, are members of visible_candidates,
\* differ from the fixed pin, stand in the order in which they first occur
\* among the slot values (read without surrounding blanks), and every empty
\* entry comes after them.
C28_SanitizedSlots ==
    SanitizeDone =>
        LET out == slots.out
            full == {i \in 1..Len(out) : out[i] # Str("")}
        IN  /\ Len(out) = slots.count
            /\ \A i, j \in full : i # j => out[i] # out[j]
            /\ \A i \in full :
                  /\ \E k \in 1..Len(slots.visible_candidates) :
                        slots.visible_candidates[k] = out[i]
                  /\ out[i] # slots.fixed_pin
                  /\ \E k \in 1..Len(slots.slot_values) : AsRead(slots.slot_values[k]) = out[i]
            /\ \A i, j \in full : i < j => FirstRead(out[i]) < FirstRead(out[j])
            /\ \A i, j \in 1..Len(out) : (i < j /\ out[i] = Str("")) => out[j] = Str("")

\* C28 witness: the slot values "b", " a", "b" with the candidates a, b and
\* count 3 gave "b", "a" and one empty entry.
C28_Witness ==
    /\ SanitizeDone
    /\ slots.slot_values = <<Str("b"), Str(" a"), Str("b")>>
    /\ slots.visible_candidates = <<Str("a"), Str("b")>>
    /\ slots.count = 3
    /\ slots.out = <<Str("b"), Str("a"), Str("")>>

\* C28 witness of the cut: more kept values than count.
C28_WitnessCut ==
    /\ SanitizeDone
    /\ slots.slot_values = <<Str("a"), Str("b")>>
    /\ slots.count = 1
    /\ slots.out = <<Str("a")>>

=============================================================================
